---- MODULE Spec2Model ----
(***************************************************************************)
(* Export queue (src/ops/export_queue.py) and quarantine / rollback        *)
(* manager (src/ops/quarantine_load.py) of the dental-leads ETL, as a      *)
(* state machine over the four JSON collections the two programs persist.  *)
(***************************************************************************)
EXTENDS Integers, Sequences, FiniteSets, TLC

VARIABLES
    queue,          \* data/export_queue/queue.json        (list of export records)
    history,        \* data/export_queue/history.json      (sent ledger)
    suppressions,   \* data/export_queue/suppression.json  (block rules)
    loads,          \* data/registry/loads.json            (load registry)
    exports,        \* data/registry/exports.json          (registry's export records)
    now,            \* the wall clock read by datetime.now(), in hours
    inflight,       \* per process: the call it is in the middle of, with what it read
    validation,     \* the run of validate_load.py: its inputs, its result, its exit code
    detection       \* license_events.py: the snapshot store, the clock, the last run

vars == <<queue, history, suppressions, loads, exports, now, inflight, validation,
          detection>>

-----------------------------------------------------------------------------
(* Bounds of the model.                                                    *)

MaxQueue == 2
MaxBatch == 2
MaxSuppressions == 1
MaxLimit == 2
MaxClock == 3
MaxHistory == 2

(* Python's None, for optional strings and for optional timestamps.        *)
None == "None"
NoTime == -1

-----------------------------------------------------------------------------
(* Static configuration.                                                   *)

DESTINATIONS ==
    [ ghl          |-> [is_reversible |-> TRUE,  auto_approve |-> TRUE,
                        min_confidence_for_auto |-> 70, delay_hours |-> 0],
      instantly    |-> [is_reversible |-> FALSE, auto_approve |-> TRUE,
                        min_confidence_for_auto |-> 85, delay_hours |-> 0],
      lob_postcard |-> [is_reversible |-> TRUE,  auto_approve |-> FALSE,
                        min_confidence_for_auto |-> 95, delay_hours |-> 24],
      lob_letter   |-> [is_reversible |-> TRUE,  auto_approve |-> FALSE,
                        min_confidence_for_auto |-> 95, delay_hours |-> 48],
      webhook      |-> [is_reversible |-> FALSE, auto_approve |-> TRUE,
                        min_confidence_for_auto |-> 70, delay_hours |-> 0] ]

SENDERS == {"ghl", "webhook"}

(* DESTINATION_HANDLERS with the webhook handler configured as reversible. *)
DESTINATION_HANDLERS_WebhookReversible ==
    [ ghl          |-> [is_reversible |-> TRUE],
      webhook      |-> [is_reversible |-> TRUE],
      instantly    |-> [is_reversible |-> FALSE],
      lob_postcard |-> [is_reversible |-> TRUE],
      lob_letter   |-> [is_reversible |-> TRUE] ]

DESTINATION_HANDLERS ==
    [ ghl          |-> [is_reversible |-> TRUE],
      webhook      |-> [is_reversible |-> FALSE],
      instantly    |-> [is_reversible |-> FALSE],
      lob_postcard |-> [is_reversible |-> TRUE],
      lob_letter   |-> [is_reversible |-> TRUE] ]

(* DestinationHandler.is_reversible: config.get('is_reversible', False)    *)
is_reversible(handler) ==
    IF "is_reversible" \in DOMAIN handler THEN handler.is_reversible ELSE FALSE

pending_statuses == <<"queued", "approved", "scheduled">>

ActiveStatuses == {"queued", "approved", "scheduled"}

-----------------------------------------------------------------------------
(* Inputs the operations are driven with.                                  *)

(* The operating-system processes that run the commands, and what a        *)
(* process holds while it is in no call.                                   *)
Procs == {"A", "B"}

Idle == [op |-> "idle"]

(* validate_load.py has not been run.                                      *)
NotStarted == [stage |-> "none"]

(* license_events.py has no snapshot store.                                *)
NoDetection == [stage |-> "none"]

LoadIds == {"L1", "L2"}

(* Candidate rows handed to add_to_queue.  A row without provider_id has   *)
(* provider_id = None; a row without an email has email = "".              *)
Row(provider_id, email, license_number, npi_number, match_confidence) ==
    [provider_id |-> provider_id, email |-> email, license_number |-> license_number,
     npi_number |-> npi_number, match_confidence |-> match_confidence]

Ann85 == Row("p1", "Ann@x.com", "LIC1", "NPI1", 85)
Ann69 == Row("p1", "Ann@x.com", "LIC1", "NPI1", 69)
Bob84 == Row("p2", "", "LIC2", "NPI2", 84)
Bob95 == Row("p2", "", "LIC2", "NPI2", 95)
Anon85 == Row(None, "Ann@x.com", "LIC1", "NPI1", 85)

Candidates == {Ann85, Ann69, Bob84, Bob95, Anon85}

(* Argument tuples add_suppression is called with.                         *)
SuppressionArgs ==
    { [email |-> "ann@X.com", license_number |-> None, npi |-> None, destination |-> None],
      [email |-> None, license_number |-> "LIC2", npi |-> "NPI1", destination |-> "instantly"] }

(* What a suppression file left by an earlier run may hold: nothing, or an *)
(* entry that was soft-removed (is_active = false).                        *)
SuppressionFiles ==
    { << >>,
      << [email |-> None, license_number |-> "LIC2", npi |-> None,
          destination |-> None, is_active |-> FALSE] >> }

MinConfidenceArgs == {0, 85}

Approvers == {"manual-cli"}

(* What a destination sender returns: (external_id, error).  The messages  *)
(* the senders build are never empty.                                      *)
SenderReturns ==
    { [external_id |-> "contact", error |-> None],
      [external_id |-> None,      error |-> None],
      [external_id |-> None,      error |-> "HTTP 500"] }

-----------------------------------------------------------------------------
(* Helpers of the export queue.                                            *)

(* Python's truth value of an optional string: "if error".                 *)
Truthy(s) == s # None /\ s # ""

(* str.lower() on the e-mail strings that occur.                           *)
Lower(s) ==
    CASE s = "Ann@x.com" -> "ann@x.com"
      [] s = "ann@X.com" -> "ann@x.com"
      [] OTHER -> s

(* md5(provider_id-destination-now)[:12]: one id per distinct input.       *)
_generate_export_id(provider_id, destination, t) ==
    <<provider_id, destination, t>>

(* _is_suppressed without the is_active test.                              *)
_is_suppressed_IgnoresActive(supps, record, destination) ==
    \E i \in 1..Len(supps) :
        LET supp == supps[i] IN
        /\ ~(Truthy(supp.destination) /\ supp.destination # destination)
        /\ \/ Truthy(supp.email) /\ Lower(supp.email) = Lower(record.email)
           \/ Truthy(supp.license_number) /\ supp.license_number = record.license_number
           \/ Truthy(supp.npi) /\ supp.npi = record.npi_number

_is_suppressed(supps, record, destination) ==
    \E i \in 1..Len(supps) :
        LET supp == supps[i] IN
        /\ supp.is_active
        /\ ~(Truthy(supp.destination) /\ supp.destination # destination)
        /\ \/ Truthy(supp.email) /\ Lower(supp.email) = Lower(record.email)
           \/ Truthy(supp.license_number) /\ supp.license_number = record.license_number
           \/ Truthy(supp.npi) /\ supp.npi = record.npi_number

(* AutoApprove with a strict comparison.                                   *)
AutoApprove_Strict(config, match_confidence) ==
    config.auto_approve /\ match_confidence > config.min_confidence_for_auto

(* The auto-approve decision of add_to_queue.                              *)
AutoApprove(config, match_confidence) ==
    config.auto_approve /\ match_confidence >= config.min_confidence_for_auto

(* ExistingActive with the approved status forgotten.                      *)
ExistingActive_QueuedOnly(q, provider_id, destination) ==
    \E i \in 1..Len(q) :
        /\ q[i].provider_id = provider_id
        /\ q[i].destination = destination
        /\ q[i].status \in {"queued", "scheduled"}

(* Whether the queue already holds an active record for the pair.          *)
ExistingActive(q, provider_id, destination) ==
    \E i \in 1..Len(q) :
        /\ q[i].provider_id = provider_id
        /\ q[i].destination = destination
        /\ q[i].status \in {"queued", "approved", "scheduled"}

(* BuildExport that computes the cooling-off time only for records it     *)
(* auto-approves.                                                          *)
BuildExport_DelayOnlyWhenAuto(record, destination, load_id, t) ==
    LET config == DESTINATIONS[destination]
        auto_approve == AutoApprove(config, record.match_confidence)
        scheduled_send == IF config.delay_hours > 0 /\ auto_approve
                          THEN t + config.delay_hours ELSE NoTime
    IN  [ export_id         |-> _generate_export_id(record.provider_id, destination, t),
          provider_id       |-> record.provider_id,
          destination       |-> destination,
          payload           |-> record,
          data_load_id      |-> load_id,
          match_confidence  |-> record.match_confidence,
          requires_approval |-> ~auto_approve,
          status            |-> IF auto_approve THEN "approved" ELSE "queued",
          approved_at       |-> IF auto_approve THEN t ELSE NoTime,
          approved_by       |-> IF auto_approve THEN "auto" ELSE None,
          scheduled_send_at |-> scheduled_send,
          queued_at         |-> t,
          sent_at           |-> NoTime,
          external_id       |-> None,
          error_message     |-> None ]

(* The export record add_to_queue builds for a row at time t.              *)
BuildExport(record, destination, load_id, t) ==
    LET config == DESTINATIONS[destination]
        auto_approve == AutoApprove(config, record.match_confidence)
        scheduled_send == IF config.delay_hours > 0 THEN t + config.delay_hours ELSE NoTime
    IN  [ export_id         |-> _generate_export_id(record.provider_id, destination, t),
          provider_id       |-> record.provider_id,
          destination       |-> destination,
          payload           |-> record,
          data_load_id      |-> load_id,
          match_confidence  |-> record.match_confidence,
          requires_approval |-> ~auto_approve,
          status            |-> IF auto_approve THEN "approved" ELSE "queued",
          approved_at       |-> IF auto_approve THEN t ELSE NoTime,
          approved_by       |-> IF auto_approve THEN "auto" ELSE None,
          scheduled_send_at |-> scheduled_send,
          queued_at         |-> t,
          sent_at           |-> NoTime,
          external_id       |-> None,
          error_message     |-> None ]

(* One iteration of add_to_queue's loop; st = [queue, counts, now].        *)
AddRecord(st, record, destination, load_id) ==
    IF ~Truthy(record.provider_id)
    THEN [st EXCEPT !.counts.skipped = @ + 1]
    ELSE IF _is_suppressed(suppressions, record, destination)
    THEN [st EXCEPT !.counts.suppressed = @ + 1]
    ELSE IF ExistingActive(st.queue, record.provider_id, destination)
    THEN [st EXCEPT !.counts.skipped = @ + 1]
    ELSE LET export == BuildExport(record, destination, load_id, st.now) IN
         [ queue  |-> Append(st.queue, export),
           counts |-> [st.counts EXCEPT
                         !.queued = @ + 1,
                         !.auto_approved = IF export.status = "approved" THEN @ + 1 ELSE @],
           now    |-> st.now + 1 ]

RECURSIVE add_to_queue(_, _, _, _, _)
add_to_queue(st, records, destination, load_id, i) ==
    IF i > Len(records) THEN st
    ELSE add_to_queue(AddRecord(st, records[i], destination, load_id),
                      records, destination, load_id, i + 1)

(* get_ready_to_send that also picks failed records up again.              *)
RECURSIVE get_ready_to_send_RetryFailed(_, _, _, _, _, _)
get_ready_to_send_RetryFailed(q, t, destination, limit, i, ready) ==
    IF i > Len(q) THEN ready
    ELSE LET export == q[i] IN
         IF export.status \notin {"approved", "failed"}
         THEN get_ready_to_send_RetryFailed(q, t, destination, limit, i + 1, ready)
         ELSE IF Truthy(destination) /\ export.destination # destination
         THEN get_ready_to_send_RetryFailed(q, t, destination, limit, i + 1, ready)
         ELSE IF export.scheduled_send_at # NoTime /\ export.scheduled_send_at > t
         THEN get_ready_to_send_RetryFailed(q, t, destination, limit, i + 1, ready)
         ELSE IF Len(ready) + 1 >= limit
         THEN Append(ready, export)
         ELSE get_ready_to_send_RetryFailed(q, t, destination, limit, i + 1,
                                            Append(ready, export))

(* get_ready_to_send without the scheduled_send_at test.                   *)
RECURSIVE get_ready_to_send_NoSchedule(_, _, _, _, _, _)
get_ready_to_send_NoSchedule(q, t, destination, limit, i, ready) ==
    IF i > Len(q) THEN ready
    ELSE LET export == q[i] IN
         IF export.status # "approved"
         THEN get_ready_to_send_NoSchedule(q, t, destination, limit, i + 1, ready)
         ELSE IF Truthy(destination) /\ export.destination # destination
         THEN get_ready_to_send_NoSchedule(q, t, destination, limit, i + 1, ready)
         ELSE IF Len(ready) + 1 >= limit
         THEN Append(ready, export)
         ELSE get_ready_to_send_NoSchedule(q, t, destination, limit, i + 1,
                                           Append(ready, export))

RECURSIVE get_ready_to_send(_, _, _, _, _, _)
get_ready_to_send(q, t, destination, limit, i, ready) ==
    IF i > Len(q) THEN ready
    ELSE LET export == q[i] IN
         IF export.status # "approved"
         THEN get_ready_to_send(q, t, destination, limit, i + 1, ready)
         ELSE IF Truthy(destination) /\ export.destination # destination
         THEN get_ready_to_send(q, t, destination, limit, i + 1, ready)
         ELSE IF export.scheduled_send_at # NoTime /\ export.scheduled_send_at > t
         THEN get_ready_to_send(q, t, destination, limit, i + 1, ready)
         ELSE IF Len(ready) + 1 >= limit
         THEN Append(ready, export)
         ELSE get_ready_to_send(q, t, destination, limit, i + 1, Append(ready, export))

(* ApproveMatches without the test that the record is still queued.       *)
ApproveMatches_AnyStatus(export, export_ids, destination, min_confidence) ==
    /\ ~(export_ids.given /\ export_ids.ids # {} /\ export.export_id \notin export_ids.ids)
    /\ ~(Truthy(destination) /\ export.destination # destination)
    /\ ~(export.match_confidence < min_confidence)

(* Whether approve_exports picks the record.  export_ids is the optional   *)
(* list: [given |-> FALSE] for None, else [given |-> TRUE, ids |-> ...];   *)
(* "if export_ids" is false for None and for the empty list.               *)
ApproveMatches(export, export_ids, destination, min_confidence) ==
    /\ export.status = "queued"
    /\ ~(export_ids.given /\ export_ids.ids # {} /\ export.export_id \notin export_ids.ids)
    /\ ~(Truthy(destination) /\ export.destination # destination)
    /\ ~(export.match_confidence < min_confidence)

approve_exports(q, export_ids, destination, min_confidence, approver, t) ==
    LET hit(i) == ApproveMatches(q[i], export_ids, destination, min_confidence)
    IN  [ queue |-> [i \in 1..Len(q) |->
                        IF hit(i)
                        THEN [q[i] EXCEPT !.status = "approved",
                                          !.approved_at = t,
                                          !.approved_by = approver]
                        ELSE q[i]],
          count |-> Cardinality({i \in 1..Len(q) : hit(i)}) ]

(* Index of the first record with the id, 0 when there is none.            *)
FirstWithId(q, export_id) ==
    IF \E i \in 1..Len(q) : q[i].export_id = export_id
    THEN CHOOSE i \in 1..Len(q) :
            /\ q[i].export_id = export_id
            /\ \A j \in 1..(i - 1) : q[j].export_id # export_id
    ELSE 0

(* record_sent that appends the history entry before looking at error.    *)
record_sent_AlwaysHistory(st, export_id, external_id, error, t) ==
    LET i == FirstWithId(st.queue, export_id) IN
    IF i = 0 THEN st
    ELSE [ queue   |-> IF Truthy(error)
                       THEN [st.queue EXCEPT ![i].status = "failed",
                                             ![i].error_message = error]
                       ELSE [st.queue EXCEPT ![i].status = "sent",
                                             ![i].sent_at = t,
                                             ![i].external_id = external_id],
           history |-> Append(st.history,
                         [ history_id  |-> <<export_id, "sent">>,
                           export_id   |-> export_id,
                           provider_id |-> st.queue[i].provider_id,
                           destination |-> st.queue[i].destination,
                           sent_at     |-> t,
                           external_id |-> external_id ]) ]

(* record_sent: st = [queue, history].                                     *)
record_sent(st, export_id, external_id, error, t) ==
    LET i == FirstWithId(st.queue, export_id) IN
    IF i = 0 THEN st
    ELSE IF Truthy(error)
    THEN [st EXCEPT !.queue[i].status = "failed",
                    !.queue[i].error_message = error]
    ELSE [ queue   |-> [st.queue EXCEPT ![i].status = "sent",
                                        ![i].sent_at = t,
                                        ![i].external_id = external_id],
           history |-> Append(st.history,
                         [ history_id  |-> <<export_id, "sent">>,
                           export_id   |-> export_id,
                           provider_id |-> st.queue[i].provider_id,
                           destination |-> st.queue[i].destination,
                           sent_at     |-> t,
                           external_id |-> external_id ]) ]

(* What sender.send(export) may return, by destination.                    *)
sender_send(destination, export) ==
    IF destination = "webhook"
    THEN { [external_id |-> export.export_id, error |-> None],
           [external_id |-> None, error |-> "HTTP 500"] }
    ELSE SenderReturns

(* SendLoop that gives up at the first record the sender fails on.         *)
RECURSIVE SendLoop_StopsOnError(_, _, _, _, _, _)
SendLoop_StopsOnError(st, ready, rets, dry_run, t, i) ==
    IF i > Len(ready) THEN st
    ELSE IF dry_run THEN SendLoop_StopsOnError(st, ready, rets, dry_run, t, i + 1)
    ELSE IF Truthy(rets[i].error)
    THEN record_sent(st, ready[i].export_id, rets[i].external_id, rets[i].error, t)
    ELSE SendLoop_StopsOnError(
            record_sent(st, ready[i].export_id, rets[i].external_id, rets[i].error, t),
            ready, rets, dry_run, t, i + 1)

(* The loop of cmd_send over the ready records; rets[i] is what the sender *)
(* returned for ready[i].                                                  *)
RECURSIVE SendLoop(_, _, _, _, _, _)
SendLoop(st, ready, rets, dry_run, t, i) ==
    IF i > Len(ready) THEN st
    ELSE IF dry_run THEN SendLoop(st, ready, rets, dry_run, t, i + 1)
    ELSE SendLoop(record_sent(st, ready[i].export_id, rets[i].external_id,
                              rets[i].error, t),
                  ready, rets, dry_run, t, i + 1)

-----------------------------------------------------------------------------
(* Helpers of the load registry and of quarantine_load.                    *)

(* dict.update: the fields of updates replace or extend those of r.        *)
Merge(r, updates) ==
    [k \in DOMAIN r \cup DOMAIN updates |->
        IF k \in DOMAIN updates THEN updates[k] ELSE r[k]]

get_load(ls, load_id) ==
    \E i \in 1..Len(ls) : ls[i].load_id = load_id

update_load(ls, load_id, updates) ==
    IF get_load(ls, load_id)
    THEN LET i == CHOOSE i \in 1..Len(ls) :
                    /\ ls[i].load_id = load_id
                    /\ \A j \in 1..(i - 1) : ls[j].load_id # load_id
         IN  [ls EXCEPT ![i] = Merge(@, updates)]
    ELSE ls

register_load(ls, load) == Append(ls, load)

get_exports_for_load(es, load_id, status) ==
    LET of_load(e) == e.data_load_id = load_id /\ e.status = status
    IN  SelectSeq(es, of_load)

update_export(es, export_id, updates) ==
    LET i == FirstWithId(es, export_id) IN
    IF i = 0 THEN es ELSE [es EXCEPT ![i] = Merge(@, updates)]

(* "Source load quarantined: {reason}"                                     *)
QuarantineMessage(reason) == <<"Source load quarantined", reason>>

(* The inner loop of the cancel step; st = [exports, cancelled].           *)
RECURSIVE CancelEach(_, _, _, _)
CancelEach(st, pending, reason, i) ==
    IF i > Len(pending) THEN st
    ELSE CancelEach(
            [ exports   |-> update_export(st.exports, pending[i].export_id,
                              [status |-> "cancelled",
                               error_message |-> QuarantineMessage(reason)]),
              cancelled |-> st.cancelled + 1 ],
            pending, reason, i + 1)

(* The outer loop of the cancel step, over pending_statuses.               *)
RECURSIVE CancelPending(_, _, _, _)
CancelPending(st, load_id, reason, s) ==
    IF s > Len(pending_statuses) THEN st
    ELSE CancelPending(
            CancelEach(st, get_exports_for_load(st.exports, load_id, pending_statuses[s]),
                       reason, 1),
            load_id, reason, s + 1)

(* handler.reverse_export(export): the vendor call is made only with an    *)
(* external_id, and answers ok or not.                                     *)
reverse_export(destination, export, ok) ==
    IF destination \in {"webhook", "instantly"} THEN FALSE
    ELSE IF export.external_id = None THEN FALSE
    ELSE ok

(* ReverseOne that passes over a non-reversible destination without       *)
(* recording a failure.                                                    *)
ReverseOne_SkipsIrreversible(st, export, reason, ok, t) ==
    LET destination == export.destination IN
    IF destination \notin DOMAIN DESTINATION_HANDLERS THEN st
    ELSE IF ~is_reversible(DESTINATION_HANDLERS[destination]) THEN st
    ELSE LET called == [st EXCEPT !.calls = Append(@, export.export_id)] IN
         IF reverse_export(destination, export, ok)
         THEN [called EXCEPT
                 !.exports = update_export(@, export.export_id,
                                [reversed_at |-> t,
                                 reversal_reason |-> QuarantineMessage(reason)]),
                 !.reversed_count = @ + 1]
         ELSE [called EXCEPT !.failed_reversals = Append(@,
                 [export_id |-> export.export_id, destination |-> destination,
                  reason |-> "Reversal failed"])]

(* One iteration of the reversal loop;                                     *)
(* st = [exports, reversed_count, failed_reversals, calls].                *)
ReverseOne(st, export, reason, ok, t) ==
    LET destination == export.destination IN
    IF destination \notin DOMAIN DESTINATION_HANDLERS THEN st
    ELSE IF ~is_reversible(DESTINATION_HANDLERS[destination])
    THEN [st EXCEPT !.failed_reversals = Append(@,
            [export_id |-> export.export_id, destination |-> destination,
             reason |-> "Destination does not support reversal"])]
    ELSE LET called == [st EXCEPT !.calls = Append(@, export.export_id)] IN
         IF reverse_export(destination, export, ok)
         THEN [called EXCEPT
                 !.exports = update_export(@, export.export_id,
                                [reversed_at |-> t,
                                 reversal_reason |-> QuarantineMessage(reason)]),
                 !.reversed_count = @ + 1]
         ELSE [called EXCEPT !.failed_reversals = Append(@,
                 [export_id |-> export.export_id, destination |-> destination,
                  reason |-> "Reversal failed"])]

RECURSIVE ReverseLoop(_, _, _, _, _, _)
ReverseLoop(st, sent_exports, reason, oks, t, i) ==
    IF i > Len(sent_exports) THEN st
    ELSE ReverseLoop(ReverseOne(st, sent_exports[i], reason, oks[i], t),
                     sent_exports, reason, oks, t, i + 1)

(* MarkQuarantined that registers an entry without looking the load up.   *)
MarkQuarantined_AlwaysRegisters(ls, load_id, reason, t) ==
    register_load(ls,
        [load_id |-> load_id, status |-> "quarantined", quarantined_at |-> t,
         quarantine_reason |-> reason])

(* The "update load status" step of quarantine_load.                       *)
MarkQuarantined(ls, load_id, reason, t) ==
    IF get_load(ls, load_id)
    THEN update_load(ls, load_id,
            [status |-> "quarantined", quarantined_at |-> t, quarantine_reason |-> reason])
    ELSE register_load(ls,
            [load_id |-> load_id, status |-> "quarantined", quarantined_at |-> t,
             quarantine_reason |-> reason])

-----------------------------------------------------------------------------
(* The handlers, as functions of the state they read and of what the       *)
(* outside world answers.                                                  *)

(* cmd_send: rets[i] is what the sender returns for the i-th ready record. *)
(* attempted lists the records handed to the sender.                       *)
cmd_send(q, h, t, destination, limit, dry_run, rets) ==
    LET ready == get_ready_to_send(q, t, destination, limit, 1, << >>)
        st0 == [queue |-> q, history |-> h]
    IN  IF Len(ready) = 0 \/ destination \notin SENDERS
        THEN [queue |-> q, history |-> h, ready |-> ready, attempted |-> << >>]
        ELSE LET st == SendLoop(st0, ready, rets, dry_run, t, 1) IN
             [queue |-> st.queue, history |-> st.history, ready |-> ready,
              attempted |-> IF dry_run THEN << >> ELSE ready]

(* The sender answers cmd_send may get for the records it would send.      *)
SendReturns(q, t, destination, limit, dry_run) ==
    LET ready == get_ready_to_send(q, t, destination, limit, 1, << >>)
        n == IF Len(ready) = 0 \/ destination \notin SENDERS \/ dry_run
             THEN 0 ELSE Len(ready)
    IN  { rets \in [1..n -> UNION {sender_send(destination, ready[i]) : i \in 1..n}] :
            \A i \in 1..n : rets[i] \in sender_send(destination, ready[i]) }

(* quarantine_load: oks[i] is the vendor's answer to the reversal of the   *)
(* i-th sent record.                                                       *)
quarantine_load(ls, es, t, load_id, reason, reverse_exports, oks) ==
    LET loads1 == MarkQuarantined(ls, load_id, reason, t)
        c == CancelPending([exports |-> es, cancelled |-> 0], load_id, reason, 1)
        sent_exports == get_exports_for_load(c.exports, load_id, "sent")
        r0 == [exports |-> c.exports, reversed_count |-> 0,
               failed_reversals |-> << >>, calls |-> << >>]
        r == IF reverse_exports
             THEN ReverseLoop(r0, sent_exports, reason, oks, t, 1)
             ELSE r0
    IN  [ loads   |-> update_load(loads1, load_id,
                        [exports_cancelled |-> c.cancelled,
                         exports_reversed |-> r.reversed_count]),
          exports |-> r.exports,
          exports_cancelled |-> c.cancelled,
          exports_reversed |-> r.reversed_count,
          exports_failed_reversal |-> Len(r.failed_reversals),
          reversal_failures |-> r.failed_reversals,
          calls |-> r.calls ]

(* The vendor answers quarantine_load may get.                             *)
ReverseReturns(es, load_id, reverse_exports) ==
    LET c == CancelPending([exports |-> es, cancelled |-> 0], load_id, "", 1)
        n == IF reverse_exports
             THEN Len(get_exports_for_load(c.exports, load_id, "sent")) ELSE 0
    IN  [1..n -> BOOLEAN]

-----------------------------------------------------------------------------
(* Further inputs.                                                         *)

BatchesOf(rows) == UNION { [1..n -> rows] : n \in 1..MaxBatch }

EmptyCounts == [queued |-> 0, auto_approved |-> 0, suppressed |-> 0, skipped |-> 0]

Reasons == {"corrupt file"}

(* The export_ids argument of approve_exports: absent, or a list.          *)
ExportIdsArgs(q) ==
    { [given |-> FALSE, ids |-> {}], [given |-> TRUE, ids |-> {}] }
    \cup { [given |-> TRUE, ids |-> {q[i].export_id}] : i \in 1..Len(q) }

(* What the registry's exports file may hold when the programs start: the  *)
(* repository only ever updates it in place.  x5 is a record of a          *)
(* destination the quarantine manager has no handler for (a record without *)
(* a destination reads as 'unknown').                                      *)
RegistryExportFiles ==
    { << >>,
      << [export_id |-> "x1", data_load_id |-> "L1", destination |-> "ghl",
          status |-> "queued", external_id |-> None],
         [export_id |-> "x2", data_load_id |-> "L1", destination |-> "instantly",
          status |-> "approved", external_id |-> None],
         [export_id |-> "x3", data_load_id |-> "L1", destination |-> "ghl",
          status |-> "sent", external_id |-> "contact"],
         [export_id |-> "x4", data_load_id |-> "L2", destination |-> "ghl",
          status |-> "queued", external_id |-> None],
         [export_id |-> "x5", data_load_id |-> "L2", destination |-> "unknown",
          status |-> "sent", external_id |-> "msg"],
         [export_id |-> "x6", data_load_id |-> "L1", destination |-> "webhook",
          status |-> "sent", external_id |-> "x6"] >> }

(* What the registry's loads file may hold when the programs start:       *)
(* nothing, or the entries of loads that the validation step registered    *)
(* (L1 among them, L2 not).                                                *)
RegistryLoadFiles ==
    { << >>,
      << [load_id |-> "L0", status |-> "promoted", source_file |-> "f0.csv"],
         [load_id |-> "L1", status |-> "validated", source_file |-> "f1.csv"] >> }

-----------------------------------------------------------------------------
(* The state machine.                                                      *)

(* A fresh installation: no file exists yet.                               *)
Init ==
    /\ queue = << >>
    /\ history = << >>
    /\ suppressions = << >>
    /\ loads = << >>
    /\ exports = << >>
    /\ now = 0
    /\ inflight = [p \in Procs |-> Idle]
    /\ validation = NotStarted
    /\ detection = NoDetection

(* cmd_queue / ExportQueue.add_to_queue(records, destination, load_id)     *)
Enqueue(records, destination, load_id) ==
    /\ destination \in DOMAIN DESTINATIONS
    /\ LET st == add_to_queue([queue |-> queue, counts |-> EmptyCounts, now |-> now],
                              records, destination, load_id, 1)
       IN  /\ Len(st.queue) <= MaxQueue
           /\ queue' = st.queue
           /\ now' = st.now
    /\ UNCHANGED <<history, suppressions, loads, exports, inflight, validation, detection>>

(* cmd_approve / ExportQueue.approve_exports                               *)
Approve(export_ids, destination, min_confidence, approver) ==
    /\ queue' = approve_exports(queue, export_ids, destination, min_confidence,
                                approver, now).queue
    /\ UNCHANGED <<history, suppressions, loads, exports, now, inflight, validation, detection>>

(* cmd_send(destination, limit, dry_run)                                   *)
Send(destination, limit, dry_run) ==
    /\ \E rets \in SendReturns(queue, now, destination, limit, dry_run) :
          LET r == cmd_send(queue, history, now, destination, limit, dry_run, rets)
          IN  /\ queue' = r.queue
              /\ history' = r.history
    /\ UNCHANGED <<suppressions, loads, exports, now, inflight, validation, detection>>

(* ExportQueue.add_suppression(email, license_number, npi, destination)    *)
add_suppression(supps, a) ==
    Append(supps,
        [email |-> a.email, license_number |-> a.license_number, npi |-> a.npi,
         destination |-> a.destination, is_active |-> TRUE])

AddSuppression(a) ==
    /\ Len(suppressions) < MaxSuppressions
    /\ suppressions' = add_suppression(suppressions, a)
    /\ UNCHANGED <<queue, history, loads, exports, now, inflight, validation, detection>>

(* quarantine_load(load_id, reason, reverse_exports)                       *)
Quarantine(load_id, reason, reverse_exports) ==
    /\ \E oks \in ReverseReturns(exports, load_id, reverse_exports) :
          LET r == quarantine_load(loads, exports, now, load_id, reason,
                                   reverse_exports, oks)
          IN  /\ loads' = r.loads
              /\ exports' = r.exports
    /\ UNCHANGED <<queue, history, suppressions, now, inflight, validation, detection>>

(* Time passes between invocations, until the cooling-off period of a      *)
(* waiting record has elapsed.                                             *)
Tick ==
    /\ \E i \in 1..Len(queue) :
          /\ queue[i].scheduled_send_at > now
          /\ now' = queue[i].scheduled_send_at
    /\ UNCHANGED <<queue, history, suppressions, loads, exports, inflight, validation, detection>>

EnqueueAny(rows, destinations, load_ids) ==
    \E records \in BatchesOf(rows), destination \in destinations, load_id \in load_ids :
        Enqueue(records, destination, load_id)

ApproveAny(destinations) ==
    \E export_ids \in ExportIdsArgs(queue), destination \in destinations \cup {None},
       min_confidence \in MinConfidenceArgs, approver \in Approvers :
        Approve(export_ids, destination, min_confidence, approver)

SendAny(destinations) ==
    \E destination \in destinations, limit \in 0..MaxLimit, dry_run \in BOOLEAN :
        Send(destination, limit, dry_run)

QuarantineAny ==
    \E load_id \in LoadIds, reason \in Reasons, reverse_exports \in BOOLEAN :
        Quarantine(load_id, reason, reverse_exports)

(* The export queue feeding a destination that has a sender (ghl) and one  *)
(* that has none (instantly).                                              *)
QueueRows == {Ann85, Ann69, Bob84, Anon85}

QueueDestinations == {"ghl", "instantly"}

Next ==
    \/ EnqueueAny(QueueRows, QueueDestinations, {"L1"})
    \/ ApproveAny(QueueDestinations)
    \/ SendAny(QueueDestinations)

Spec == Init /\ [][Next]_vars

(* The export queue feeding an auto-approving destination (instantly) and  *)
(* a gated one with a cooling-off delay (lob_postcard), as time passes.    *)
ScheduleRows == {Ann85, Bob84, Bob95}

ScheduleDestinations == {"instantly", "lob_postcard"}

NextSchedule ==
    \/ EnqueueAny(ScheduleRows, ScheduleDestinations, {"L1"})
    \/ ApproveAny(ScheduleDestinations)
    \/ SendAny(ScheduleDestinations)
    \/ Tick

SpecSchedule == Init /\ [][NextSchedule]_vars

(* The export queue with its suppression list, which an earlier run may    *)
(* have left behind.                                                       *)
InitSuppression ==
    /\ queue = << >>
    /\ history = << >>
    /\ suppressions \in SuppressionFiles
    /\ loads = << >>
    /\ exports = << >>
    /\ now = 0
    /\ inflight = [p \in Procs |-> Idle]
    /\ validation = NotStarted
    /\ detection = NoDetection

SuppressionRows == {Ann85, Bob84, Anon85}

NextSuppression ==
    \/ EnqueueAny(SuppressionRows, QueueDestinations, {"L1"})
    \/ ApproveAny(QueueDestinations)
    \/ SendAny(QueueDestinations)
    \/ \E a \in SuppressionArgs : AddSuppression(a)

SpecSuppression == InitSuppression /\ [][NextSuppression]_vars

(* The export queue together with the quarantine manager and its registry. *)
InitQuarantine ==
    /\ queue = << >>
    /\ history = << >>
    /\ suppressions = << >>
    /\ loads \in RegistryLoadFiles
    /\ exports \in RegistryExportFiles
    /\ now = 0
    /\ inflight = [p \in Procs |-> Idle]
    /\ validation = NotStarted
    /\ detection = NoDetection

NextQuarantine ==
    \/ EnqueueAny({Ann69}, {"ghl"}, {"L1"})
    \/ ApproveAny({"ghl"})
    \/ SendAny({"ghl"})
    \/ QuarantineAny

SpecQuarantine == InitQuarantine /\ [][NextQuarantine]_vars

-----------------------------------------------------------------------------
(* Two processes running queue commands at the same time.  Each command    *)
(* reads the whole queue file when it starts (_load_json) and writes the   *)
(* whole file back when it is done (_save_json); nothing locks the file    *)
(* in between, so the steps of two processes interleave at these points.   *)
(* The model follows one interrupted call at a time: while a process is    *)
(* between its read and its write, the other one runs whole commands.      *)

(* add_to_queue, up to and including the read of the queue file.  A write  *)
(* of a stale list can drop records, so the clock bounds the run, not the  *)
(* length of the queue alone.                                              *)
BeginAddToQueue(p, records, destination, load_id) ==
    /\ \A q \in Procs : inflight[q] = Idle
    /\ destination \in DOMAIN DESTINATIONS
    /\ Len(queue) + Len(records) <= MaxQueue
    /\ now + Len(records) <= MaxClock
    /\ inflight' = [inflight EXCEPT ![p] =
                      [op |-> "add_to_queue", queue |-> queue, records |-> records,
                       destination |-> destination, load_id |-> load_id]]
    /\ UNCHANGED <<queue, history, suppressions, loads, exports, now, validation, detection>>

(* add_to_queue, from its loop to the write of the list it read and        *)
(* extended.                                                               *)
EndAddToQueue(p) ==
    /\ inflight[p].op = "add_to_queue"
    /\ LET call == inflight[p]
           st == add_to_queue([queue |-> call.queue, counts |-> EmptyCounts, now |-> now],
                              call.records, call.destination, call.load_id, 1)
       IN  /\ queue' = st.queue
           /\ now' = st.now
    /\ inflight' = [inflight EXCEPT ![p] = Idle]
    /\ UNCHANGED <<history, suppressions, loads, exports, validation, detection>>

(* approve_exports, up to and including the read of the queue file.        *)
BeginApprove(p, export_ids, destination, min_confidence, approver) ==
    /\ \A q \in Procs : inflight[q] = Idle
    /\ inflight' = [inflight EXCEPT ![p] =
                      [op |-> "approve_exports", queue |-> queue,
                       export_ids |-> export_ids, destination |-> destination,
                       min_confidence |-> min_confidence, approver |-> approver]]
    /\ UNCHANGED <<queue, history, suppressions, loads, exports, now, validation, detection>>

(* approve_exports, from its loop to the write of the list it read.        *)
EndApprove(p) ==
    /\ inflight[p].op = "approve_exports"
    /\ LET call == inflight[p] IN
       queue' = approve_exports(call.queue, call.export_ids, call.destination,
                                call.min_confidence, call.approver, now).queue
    /\ inflight' = [inflight EXCEPT ![p] = Idle]
    /\ UNCHANGED <<history, suppressions, loads, exports, now, validation, detection>>

(* A stale write can put a sent record back to approved, and each further  *)
(* send of it adds a history entry: the length of the history bounds the   *)
(* run as well.                                                            *)
ConcurrentRows == {Ann69, Bob84}

ConcurrentDestinations == {"ghl"}

NextConcurrent ==
    \/ \E p \in Procs, records \in BatchesOf(ConcurrentRows),
          destination \in ConcurrentDestinations :
          BeginAddToQueue(p, records, destination, "L1")
    \/ \E p \in Procs : EndAddToQueue(p)
    \/ \E p \in Procs, destination \in ConcurrentDestinations,
          min_confidence \in MinConfidenceArgs, approver \in Approvers :
          BeginApprove(p, [given |-> FALSE, ids |-> {}], destination,
                       min_confidence, approver)
    \/ \E p \in Procs : EndApprove(p)
    \/ ApproveAny(ConcurrentDestinations)
    \/ Len(history) < MaxHistory /\ SendAny(ConcurrentDestinations)

SpecConcurrent == Init /\ [][NextConcurrent]_vars

-----------------------------------------------------------------------------
(* ops/validate_load.py: validation of a load before it is promoted.       *)

(* Fractions (0.20, 0.99, 0.9999) are counted in parts of Scale, so that   *)
(* a / b <= f is the comparison a * Scale <= f * b on integers.            *)
Scale == 10000

(* prev_df = None; len(prev_df) of no previous dataset.                    *)
NoFrame == [absent |-> TRUE]

NoCount == -1

(* A pandas DataFrame as far as the rules look at it: the number of rows,  *)
(* the columns, and per column the counts the rules take: values that are  *)
(* neither null nor blank, values that are not null, values that match the *)
(* format pattern, rows whose key occurs more than once, dates that parse  *)
(* and that lie before or after the allowed range, rows holding a value.   *)
Frame(columns, rows, blank, dups) ==
    [rows |-> rows,
     columns |-> columns,
     populated |-> [c \in columns |-> rows - blank],
     non_null |-> [c \in columns |-> rows - blank],
     matching |-> [c \in columns |-> rows - blank],
     duplicated |-> [c \in columns |-> dups],
     dates |-> [c \in columns |->
                  [valid |-> rows - blank, too_old |-> 0, too_new |-> 0]],
     value_counts |-> [c \in columns |-> [v \in {20} |-> rows - blank]]]

ValidationResult(rule_name, passed, severity, message) ==
    [rule_name |-> rule_name, passed |-> passed, severity |-> severity,
     message |-> message]

(* x.mean() >= min_pct for a boolean series with `count` true values of    *)
(* `total`; the mean of an empty series is NaN, which compares false.      *)
MeanAtLeast(count, total, min_pct) ==
    total > 0 /\ count * Scale >= min_pct * total

row_count_min(df, min_rows) ==
    ValidationResult(<<"row_count_min">>, df.rows >= min_rows, "error",
                     <<"Row count", df.rows, min_rows>>)

Abs(x) == IF x < 0 THEN -x ELSE x

row_count_delta_NoAbs(df, prev_df, max_delta_pct) ==
    IF prev_df = NoFrame \/ prev_df.rows = 0
    THEN ValidationResult(<<"row_count_delta">>, TRUE, "warning",
                          <<"No previous data to compare">>)
    ELSE ValidationResult(<<"row_count_delta">>,
                          (df.rows - prev_df.rows) * Scale
                              <= max_delta_pct * prev_df.rows,
                          "error",
                          <<"Row count delta", df.rows, prev_df.rows>>)

row_count_delta(df, prev_df, max_delta_pct) ==
    IF prev_df = NoFrame \/ prev_df.rows = 0
    THEN ValidationResult(<<"row_count_delta">>, TRUE, "warning",
                          <<"No previous data to compare">>)
    ELSE LET current == df.rows
             previous == prev_df.rows
         IN  ValidationResult(<<"row_count_delta">>,
                              Abs(current - previous) * Scale
                                  <= max_delta_pct * previous,
                              "error",
                              <<"Row count delta", current, previous>>)

field_populated(df, field, min_pct) ==
    IF field \notin df.columns
    THEN ValidationResult(<<"field_populated", field>>, FALSE, "error",
                          <<"Field not found in data", field>>)
    ELSE ValidationResult(<<"field_populated", field>>,
                          MeanAtLeast(df.populated[field], df.rows, min_pct),
                          "error", <<"Field populated", field>>)

field_format(df, field, pattern, min_pct) ==
    IF field \notin df.columns
    THEN ValidationResult(<<"field_format", field>>, FALSE, "error",
                          <<"Field not found in data", field>>)
    ELSE IF df.non_null[field] = 0
    THEN ValidationResult(<<"field_format", field>>, FALSE, "error",
                          <<"Field has no non-null values", field>>)
    ELSE ValidationResult(<<"field_format", field>>,
                          MeanAtLeast(df.matching[field], df.non_null[field],
                                      min_pct),
                          "error", <<"Field match pattern", field>>)

no_duplicates_ToleratesOnePair(df, key_fields) ==
    LET missing == {i \in 1..Len(key_fields) : key_fields[i] \notin df.columns}
    IN  IF missing # {}
        THEN ValidationResult(<<"no_duplicates">>, FALSE, "error",
                              <<"Key fields not found">>)
        ELSE ValidationResult(<<"no_duplicates">>,
                              df.duplicated[key_fields[1]] <= 2, "error",
                              <<"Duplicates", df.duplicated[key_fields[1]]>>)

(* Every configuration keys on one field: df.duplicated(subset=key_fields, *)
(* keep=False) is the count kept for that field.                           *)
no_duplicates(df, key_fields) ==
    LET missing == {i \in 1..Len(key_fields) : key_fields[i] \notin df.columns}
    IN  IF missing # {}
        THEN ValidationResult(<<"no_duplicates">>, FALSE, "error",
                              <<"Key fields not found">>)
        ELSE ValidationResult(<<"no_duplicates">>,
                              df.duplicated[key_fields[1]] = 0, "error",
                              <<"Duplicates", df.duplicated[key_fields[1]]>>)

date_range(df, field, min_date, max_date) ==
    IF field \notin df.columns
    THEN ValidationResult(<<"date_range", field>>, FALSE, "error",
                          <<"Field not found", field>>)
    ELSE IF df.dates[field].valid = 0
    THEN ValidationResult(<<"date_range", field>>, TRUE, "warning",
                          <<"No valid dates to validate", field>>)
    ELSE LET too_old == Truthy(min_date) /\ df.dates[field].too_old > 0
             too_new == Truthy(max_date) /\ df.dates[field].too_new > 0
         IN  ValidationResult(<<"date_range", field>>,
                              ~too_old /\ ~too_new, "error",
                              <<"Date range check", field>>)

value_distribution(df, field, value, min_pct) ==
    IF field \notin df.columns
    THEN ValidationResult(<<"value_distribution", field>>, FALSE, "error",
                          <<"Field not found", field>>)
    ELSE ValidationResult(<<"value_distribution", field, value>>,
                          MeanAtLeast(df.value_counts[field][value], df.rows,
                                      min_pct),
                          "error", <<"Value in field", field, value>>)

(* The functions of class ValidationRules: getattr(ValidationRules, name,  *)
(* None) finds these and no other rule name.                               *)
ImplementedRules ==
    {"row_count_min", "row_count_delta", "field_populated", "field_format",
     "no_duplicates", "date_range", "value_distribution"}

Rule(name, params) == [name |-> name, params |-> params]

SOURCE_CONFIGS ==
    [tx_license |->
        [key_fields |-> <<"LIC_ID">>,
         rules |-> <<
            Rule("row_count_min", [min_rows |-> 1000]),
            Rule("row_count_delta", [max_delta_pct |-> 2000]),
            Rule("field_populated", [field |-> "LIC_NBR", min_pct |-> 9900]),
            Rule("field_populated", [field |-> "LAST_NME", min_pct |-> 9900]),
            Rule("field_populated", [field |-> "FIRST_NME", min_pct |-> 9800]),
            Rule("field_populated", [field |-> "CITY", min_pct |-> 9000]),
            Rule("no_duplicates", [key_fields |-> <<"LIC_ID">>]),
            Rule("date_range", [field |-> "LIC_ORIG_DTE",
                                min_date |-> "1900-01-01",
                                max_date |-> "CURRENT_DATE()"]),
            Rule("value_distribution", [field |-> "LIC_STA_CDE",
                                        value |-> 20, min_pct |-> 5000]) >>],
     wa_license |->
        [key_fields |-> <<"credential_number">>,
         rules |-> <<
            Rule("row_count_min", [min_rows |-> 1000]),
            Rule("row_count_delta", [max_delta_pct |-> 2000]),
            Rule("field_populated", [field |-> "credential_number",
                                     min_pct |-> 9900]),
            Rule("field_populated", [field |-> "last_name", min_pct |-> 9900]),
            Rule("no_duplicates",
                 [key_fields |-> <<"credential_number">>]) >>],
     co_license |->
        [key_fields |-> <<"license_number">>,
         rules |-> <<
            Rule("row_count_min", [min_rows |-> 500]),
            Rule("row_count_delta", [max_delta_pct |-> 2000]),
            Rule("field_populated", [field |-> "license_number",
                                     min_pct |-> 9900]),
            Rule("field_populated", [field |-> "last_name", min_pct |-> 9900]),
            Rule("no_duplicates", [key_fields |-> <<"license_number">>]) >>],
     npi |->
        [key_fields |-> <<"NPI">>,
         rules |-> <<
            Rule("row_count_min", [min_rows |-> 100000]),
            Rule("row_count_delta", [max_delta_pct |-> 1000]),
            Rule("field_populated", [field |-> "NPI", min_pct |-> 9999]),
            Rule("field_format", [field |-> "NPI", pattern |-> "^\\d{10}$",
                                  min_pct |-> 9900]),
            Rule("no_duplicates", [key_fields |-> <<"NPI">>]) >>]]

(* rule_fn(df, **rule_params), with prev_df for the delta rule.            *)
rule_fn(rule_name, df, prev_df, rule_params) ==
    CASE rule_name = "row_count_min" ->
            row_count_min(df, rule_params.min_rows)
      [] rule_name = "row_count_delta" ->
            row_count_delta(df, prev_df, rule_params.max_delta_pct)
      [] rule_name = "field_populated" ->
            field_populated(df, rule_params.field, rule_params.min_pct)
      [] rule_name = "field_format" ->
            field_format(df, rule_params.field, rule_params.pattern,
                         rule_params.min_pct)
      [] rule_name = "no_duplicates" ->
            no_duplicates(df, rule_params.key_fields)
      [] rule_name = "date_range" ->
            date_range(df, rule_params.field, rule_params.min_date,
                       rule_params.max_date)
      [] rule_name = "value_distribution" ->
            value_distribution(df, rule_params.field, rule_params.value,
                               rule_params.min_pct)

(* str(e) of the exception a rule raises.                                  *)
RuleError == "exception"

(* One turn of the loop of validate_load over rule number i. `raising` is  *)
(* the set of rule positions whose call raises; `calls` lists the rule     *)
(* positions whose function was called.                                    *)
RunRule_AbortsOnRaise(st, rule, i, df, prev_df, raising) ==
    IF /\ Len(st.errors) > 0
       /\ st.errors[Len(st.errors)].message[1] = "Rule execution failed"
    THEN st
    ELSE IF rule.name \notin ImplementedRules
    THEN [st EXCEPT !.warnings = Append(@,
            ValidationResult(<<rule.name>>, FALSE, "warning",
                             <<"Unknown rule", rule.name>>))]
    ELSE LET called == [st EXCEPT !.calls = Append(@, i)]
         IN  IF i \in raising
             THEN [called EXCEPT !.errors = Append(@,
                     ValidationResult(<<rule.name>>, FALSE, "error",
                                      <<"Rule execution failed", RuleError>>))]
             ELSE LET result == rule_fn(rule.name, df, prev_df, rule.params)
                  IN  IF ~result.passed
                      THEN IF result.severity = "error"
                           THEN [called EXCEPT !.errors = Append(@, result)]
                           ELSE [called EXCEPT !.warnings = Append(@, result)]
                      ELSE IF result.severity = "warning"
                      THEN [called EXCEPT !.warnings = Append(@, result)]
                      ELSE called

RunRule(st, rule, i, df, prev_df, raising) ==
    IF rule.name \notin ImplementedRules
    THEN [st EXCEPT !.warnings = Append(@,
            ValidationResult(<<rule.name>>, FALSE, "warning",
                             <<"Unknown rule", rule.name>>))]
    ELSE LET called == [st EXCEPT !.calls = Append(@, i)]
         IN  IF i \in raising
             THEN [called EXCEPT !.errors = Append(@,
                     ValidationResult(<<rule.name>>, FALSE, "error",
                                      <<"Rule execution failed", RuleError>>))]
             ELSE LET result == rule_fn(rule.name, df, prev_df, rule.params)
                  IN  IF ~result.passed
                      THEN IF result.severity = "error"
                           THEN [called EXCEPT !.errors = Append(@, result)]
                           ELSE [called EXCEPT !.warnings = Append(@, result)]
                      ELSE IF result.severity = "warning"
                      THEN [called EXCEPT !.warnings = Append(@, result)]
                      ELSE called

RECURSIVE RunRules(_, _, _, _, _, _)
RunRules(st, rules, i, df, prev_df, raising) ==
    IF i > Len(rules)
    THEN st
    ELSE RunRules(RunRule(st, rules[i], i, df, prev_df, raising),
                  rules, i + 1, df, prev_df, raising)

(* round(x, 4) of the quotient num / den, in parts of Scale: the nearest   *)
(* integer, a tie going to the even one.                                   *)
Round4(num, den) ==
    LET n == Abs(num) * Scale
        q == n \div den
        r == n % den
        up == 2 * r > den \/ (2 * r = den /\ q % 2 = 1)
        m == IF up THEN q + 1 ELSE q
    IN  IF num < 0 THEN -m ELSE m

(* validate_load(df, source_type, prev_df), `rules` being the rules the    *)
(* configuration of the source type lists. An absent value of              *)
(* row_count_delta_pct is the empty tuple.                                 *)
validate_load(df, rules, prev_df, raising) ==
    LET row_count == df.rows
        row_count_prev == IF prev_df # NoFrame THEN prev_df.rows ELSE NoCount
        has_delta == row_count_prev # NoCount /\ row_count_prev > 0
        st == RunRules([errors |-> << >>, warnings |-> << >>,
                        calls |-> << >>],
                       rules, 1, df, prev_df, raising)
    IN  [passed |-> Len(st.errors) = 0,
         row_count |-> row_count,
         row_count_previous |-> row_count_prev,
         row_count_delta_pct |->
            IF has_delta /\ row_count # row_count_prev
            THEN <<Round4(row_count - row_count_prev, row_count_prev)>>
            ELSE << >>,
         errors |-> st.errors,
         warnings |-> st.warnings,
         calls |-> st.calls]

(* Inputs of a run of validate_load.py.                                    *)
MaxRaises == 1

SourceTypes == {"tx_license", "wa_license", "co_license", "npi"}

(* A rule name that class ValidationRules does not define.                 *)
UnknownRule == Rule("checksum", [field |-> "NPI"])

(* The rules as configured, or with one unimplemented name listed second.  *)
RuleLists(source_type) ==
    LET rules == SOURCE_CONFIGS[source_type].rules
    IN  {rules, <<rules[1], UnknownRule>> \o Tail(rules)}

(* The columns the rules of a source type look at.                         *)
ColumnsOf(source_type) ==
    LET rules == SOURCE_CONFIGS[source_type].rules
    IN  {rules[i].params.field :
            i \in {j \in 1..Len(rules) : "field" \in DOMAIN rules[j].params}}
        \cup {SOURCE_CONFIGS[source_type].key_fields[1]}

(* The smallest dataset the source type accepts.                           *)
BaseRows(source_type) == SOURCE_CONFIGS[source_type].rules[1].params.min_rows

(* The dataset df and one more row that repeats the key of a row of df    *)
(* and is complete otherwise; holds_value tells whether the row holds the  *)
(* value 20 in the columns counted for it.                                 *)
WithDuplicateRow(df, key, holds_value) ==
    [rows |-> df.rows + 1,
     columns |-> df.columns,
     populated |-> [c \in df.columns |-> df.populated[c] + 1],
     non_null |-> [c \in df.columns |-> df.non_null[c] + 1],
     matching |-> [c \in df.columns |-> df.matching[c] + 1],
     duplicated |-> [c \in df.columns |->
                      IF c = key THEN df.duplicated[c] + 2
                      ELSE df.duplicated[c]],
     dates |-> [c \in df.columns |->
                  [df.dates[c] EXCEPT !.valid = @ + 1]],
     value_counts |-> [c \in df.columns |-> [v \in {20} |->
                         df.value_counts[c][v]
                            + (IF holds_value THEN 1 ELSE 0)]]]

(* Datasets of a source type: clean ones of several sizes, one with blank  *)
(* values, one with a repeated key, one lacking a column, an empty one,    *)
(* one whose columns are populated to 99 percent, one in which half of the *)
(* rows hold the value 20, and clean ones with one row added that repeats  *)
(* a key.                                                                  *)
Datasets(source_type) ==
    LET columns == ColumnsOf(source_type)
        base == BaseRows(source_type)
        key == SOURCE_CONFIGS[source_type].key_fields[1]
    IN  {Frame(columns, (base * k) \div 20, 0, 0) : k \in {14, 16, 20, 22, 24, 26, 27}}
        \cup {Frame(columns, base, (base * 3) \div 10, 0),
              Frame(columns, base, base \div 100, 0),
              [Frame(columns, base, 0, 0) EXCEPT !.value_counts =
                  [c \in columns |-> [v \in {20} |-> base \div 2]]],
              WithDuplicateRow(Frame(columns, base, 0, 0), key, TRUE),
              WithDuplicateRow(Frame(columns, (base * 24) \div 20, 0, 0),
                               key, TRUE),
              Frame(columns, base, 0, 2),
              Frame(columns \ {SOURCE_CONFIGS[source_type].rules[3].params.field},
                    base, 0, 0),
              Frame(columns, 0, 0, 0)}

PreviousDatasets(source_type) ==
    {NoFrame,
     Frame(ColumnsOf(source_type), 0, 0, 0),
     Frame(ColumnsOf(source_type), BaseRows(source_type), 0, 0),
     Frame(ColumnsOf(source_type), 2 * BaseRows(source_type), 0, 0)}

(* main() has read --file and --previous.                                  *)
InitValidate ==
    /\ queue = << >>
    /\ history = << >>
    /\ suppressions = << >>
    /\ loads = << >>
    /\ exports = << >>
    /\ now = 0
    /\ inflight = [p \in Procs |-> Idle]
    /\ detection = NoDetection
    /\ \E source_type \in SourceTypes :
       \E rules \in RuleLists(source_type), df \in Datasets(source_type),
          prev_df \in PreviousDatasets(source_type), quiet \in BOOLEAN :
          validation = [stage |-> "loaded", source_type |-> source_type,
                        rules |-> rules, df |-> df, prev_df |-> prev_df,
                        quiet |-> quiet]

(* main(), lines 478 to 486: result = validate_load(...)                   *)
Validate(raising) ==
    /\ validation.stage = "loaded"
    /\ validation' =
          [stage |-> "validated", source_type |-> validation.source_type,
           rules |-> validation.rules, df |-> validation.df,
           prev_df |-> validation.prev_df, quiet |-> validation.quiet,
           raising |-> raising,
           result |-> validate_load(validation.df, validation.rules,
                                    validation.prev_df, raising)]
    /\ UNCHANGED <<queue, history, suppressions, loads, exports, now, inflight, detection>>

(* The summary main() prints unless --quiet: the line of the previous row  *)
(* count formats row_count_delta_pct, which raises TypeError when that is  *)
(* None.                                                                   *)
SummaryRaises(result, quiet) ==
    /\ ~quiet
    /\ result.row_count_previous # NoCount
    /\ result.row_count_previous # 0
    /\ result.row_count_delta_pct = << >>

(* main(), lines 488 to 521: print the summary, then                       *)
(* sys.exit(0 if result.passed else 1). An uncaught exception ends the     *)
(* interpreter with exit code 1.                                           *)
Report ==
    /\ validation.stage = "validated"
    /\ validation' =
          [stage |-> "exited", source_type |-> validation.source_type,
           rules |-> validation.rules, df |-> validation.df,
           prev_df |-> validation.prev_df, quiet |-> validation.quiet,
           raising |-> validation.raising, result |-> validation.result,
           traceback |-> SummaryRaises(validation.result, validation.quiet),
           exit_code |->
              IF SummaryRaises(validation.result, validation.quiet) THEN 1
              ELSE IF validation.result.passed THEN 0 ELSE 1]
    /\ UNCHANGED <<queue, history, suppressions, loads, exports, now, inflight, detection>>

NextValidate ==
    \/ /\ validation.stage = "loaded"
       /\ \E raising \in SUBSET (1..Len(validation.rules)) :
             Cardinality(raising) <= MaxRaises /\ Validate(raising)
    \/ Report

SpecValidate == InitValidate /\ [][NextValidate]_vars

-----------------------------------------------------------------------------
(* events/license_events.py: the events between two snapshots.             *)

ACTIVE_STATUSES == {20, 46, 70}

LAPSED_STATUSES == {45, 48, 60}

(* A cell of a snapshot that is empty: read_csv(dtype=str) gives NaN.      *)
NaN == "NaN"

(* load_snapshot found no file.                                            *)
NoSnapshot == [missing |-> TRUE]

(* The clock counts hours, DayLength of them to a day; timestamp[:10] is   *)
(* the date of a timestamp.                                                *)
DayLength == 2

DateOf(timestamp) == timestamp \div DayLength

(* int(s) for the status cells that occur; a cell that holds no number     *)
(* is not in the table.                                                    *)
IntOf ==
    [s \in {"0", "20", "45", "46", "48", "60", "70"} |->
        CASE s = "0" -> 0 [] s = "20" -> 20 [] s = "45" -> 45 [] s = "46" -> 46
          [] s = "48" -> 48 [] s = "60" -> 60 [] s = "70" -> 70]

(* int(row.get(column, 0) or 0): 0 when the row has no such column or an   *)
(* empty string; NaN is truthy, and int(NaN) raises ValueError.            *)
StatusRaises(row, column) ==
    column \in DOMAIN row /\ row[column] # "" /\ row[column] \notin DOMAIN IntOf

StatusOf(row, column) ==
    IF column \notin DOMAIN row \/ row[column] = "" THEN 0
    ELSE IntOf[row[column]]

LicenseEvent(event_id, event_type, timestamp, professional_type, license_number, priority, marketing_action) ==
    [event_id |-> event_id, event_type |-> event_type, timestamp |-> timestamp,
     state_code |-> "TX", professional_type |-> professional_type,
     license_number |-> license_number, priority |-> priority,
     marketing_action |-> marketing_action]

(* A result of a detection: the events, or the exception that ended it.    *)
Events(events) == [raised |-> FALSE, events |-> events]

Raised(error) == [raised |-> TRUE, error |-> error, events |-> << >>]

(* The rows of a snapshot as row.get sees them: a column the snapshot does *)
(* not have is no key of the row.                                          *)
RowsOf(df) ==
    [i \in 1..Len(df.rows) |->
        [c \in DOMAIN df.rows[i] \cap df.columns |-> df.rows[i][c]]]

(* The loop of detect_new_licenses over new_df.                            *)
RECURSIVE NewLicenseLoop(_, _, _, _, _)
NewLicenseLoop(new_df, professional_type, timestamp, i, events) ==
    IF i > Len(new_df) THEN Events(events)
    ELSE LET row == new_df[i] IN
         IF StatusRaises(row, "LIC_STA_CDE") THEN Raised("ValueError")
         ELSE IF StatusOf(row, "LIC_STA_CDE") \notin ACTIVE_STATUSES
         THEN NewLicenseLoop(new_df, professional_type, timestamp, i + 1, events)
         ELSE NewLicenseLoop(new_df, professional_type, timestamp, i + 1,
                 Append(events,
                    LicenseEvent(<<"NEW", row.LIC_NBR, DateOf(timestamp)>>,
                                 "NEW_LICENSE", timestamp, professional_type,
                                 row.LIC_NBR, "HIGH", "onboarding_sequence")))

detect_new_licenses(current_df, previous_df, professional_type, timestamp) ==
    IF "LIC_NBR" \notin current_df.columns \/ "LIC_NBR" \notin previous_df.columns
    THEN Raised("KeyError")
    ELSE LET rows == RowsOf(current_df)
             current_licenses == {rows[i].LIC_NBR : i \in 1..Len(rows)}
             previous_licenses == {previous_df.rows[i].LIC_NBR :
                                      i \in 1..Len(previous_df.rows)}
             new_licenses == current_licenses \ previous_licenses
             is_new(row) == row.LIC_NBR \in new_licenses
             new_df == SelectSeq(rows, is_new)
         IN  NewLicenseLoop(new_df, professional_type, timestamp, 1, << >>)

(* The columns detect_status_changes selects from each side.               *)
PreviousColumns == {"LIC_NBR", "LIC_STA_CDE", "LIC_STA_DESC"}

CurrentColumns ==
    {"LIC_NBR", "LIC_STA_CDE", "LIC_STA_DESC", "FIRST_NME", "LAST_NME", "CITY",
     "COUNTY", "ZIP"}

AliasColumns == (CurrentColumns \ {"LAST_NME"}) \cup {"LAST_MNE"}

(* pd.merge(previous, current, on="LIC_NBR", how="inner"): every pair of a *)
(* previous row and a current row with the same license number, in the     *)
(* order of the previous rows.                                             *)
RECURSIVE MergeInner(_, _, _, _, _)
MergeInner(previous, current, i, j, merged) ==
    IF i > Len(previous) THEN merged
    ELSE IF j > Len(current) THEN MergeInner(previous, current, i + 1, 1, merged)
    ELSE IF previous[i].LIC_NBR = current[j].LIC_NBR
    THEN MergeInner(previous, current, i, j + 1,
            Append(merged, [LIC_NBR |-> previous[i].LIC_NBR,
                            LIC_STA_CDE_prev |-> previous[i].LIC_STA_CDE,
                            LIC_STA_CDE_curr |-> current[j].LIC_STA_CDE]))
    ELSE MergeInner(previous, current, i, j + 1, merged)

(* One merged row classified.                                              *)
StatusEvents(row, professional_type, timestamp) ==
    LET prev_status == StatusOf(row, "LIC_STA_CDE_prev")
        curr_status == StatusOf(row, "LIC_STA_CDE_curr")
    IN  IF prev_status = curr_status THEN << >>
        ELSE IF prev_status \in ACTIVE_STATUSES /\ curr_status \in LAPSED_STATUSES
        THEN << LicenseEvent(<<"LAPSED", row.LIC_NBR, DateOf(timestamp)>>,
                             "LAPSED", timestamp, professional_type,
                             row.LIC_NBR, "MEDIUM", "suppress_or_winback") >>
        ELSE IF prev_status \in LAPSED_STATUSES /\ curr_status \in ACTIVE_STATUSES
        THEN << LicenseEvent(<<"REINSTATED", row.LIC_NBR, DateOf(timestamp)>>,
                             "REINSTATED", timestamp, professional_type,
                             row.LIC_NBR, "HIGH", "reengagement_sequence") >>
        ELSE << >>

(* The loop of detect_status_changes over the merged rows.                 *)
RECURSIVE StatusChangeLoop(_, _, _, _, _)
StatusChangeLoop(merged, professional_type, timestamp, i, events) ==
    IF i > Len(merged) THEN Events(events)
    ELSE IF \/ StatusRaises(merged[i], "LIC_STA_CDE_prev")
            \/ StatusRaises(merged[i], "LIC_STA_CDE_curr")
    THEN Raised("ValueError")
    ELSE StatusChangeLoop(merged, professional_type, timestamp, i + 1,
            events \o StatusEvents(merged[i], professional_type, timestamp))

(* Selecting a column a DataFrame does not have raises KeyError, in the    *)
(* first merge already; the merge over the alias LAST_MNE comes after it.  *)
detect_status_changes(current_df, previous_df, professional_type, timestamp) ==
    IF \/ ~(PreviousColumns \subseteq previous_df.columns)
       \/ ~(CurrentColumns \subseteq current_df.columns)
    THEN Raised("KeyError")
    ELSE LET merged_columns == PreviousColumns \cup CurrentColumns
             merged == MergeInner(previous_df.rows, current_df.rows, 1, 1, << >>)
         IN  IF "LAST_NME" \notin merged_columns
                /\ "LAST_MNE" \in current_df.columns
             THEN IF AliasColumns \subseteq current_df.columns
                  THEN StatusChangeLoop(merged, professional_type, timestamp,
                                        1, << >>)
                  ELSE Raised("KeyError")
             ELSE StatusChangeLoop(merged, professional_type, timestamp, 1, << >>)

(* load_snapshot(date, file_type): the file of the dated directory, else   *)
(* the file of the directory "current", else None.  The store holds no     *)
(* flat files of the legacy layout.                                        *)
load_snapshot(store, date, file_type) ==
    IF store.dated[date][file_type] # NoSnapshot
    THEN store.dated[date][file_type]
    ELSE store.current[file_type]

(* The loop of detect_all_events; st = [raised, events, warnings].         *)
DetectType(st, store, current_date, previous_date, ptype, timestamp) ==
    IF st.raised THEN st
    ELSE LET current_df == load_snapshot(store, current_date, ptype)
             previous_df == load_snapshot(store, previous_date, ptype)
         IN  IF current_df = NoSnapshot
             THEN [st EXCEPT !.warnings = Append(@, <<"No current snapshot", ptype>>)]
             ELSE IF previous_df = NoSnapshot
             THEN [st EXCEPT !.warnings = Append(@, <<"No previous snapshot", ptype>>)]
             ELSE LET new_events == detect_new_licenses(current_df, previous_df,
                                                        ptype, timestamp)
                      status_events == detect_status_changes(current_df,
                                           previous_df, ptype, timestamp)
                  IN  IF new_events.raised
                      THEN [st EXCEPT !.raised = TRUE, !.error = new_events.error,
                                      !.events = << >>]
                      ELSE IF status_events.raised
                      THEN [st EXCEPT !.raised = TRUE,
                                      !.error = status_events.error,
                                      !.events = << >>]
                      ELSE [st EXCEPT !.events =
                              @ \o new_events.events \o status_events.events]

RECURSIVE DetectTypes(_, _, _, _, _, _, _)
DetectTypes(st, store, current_date, previous_date, professional_types, timestamp, i) ==
    IF i > Len(professional_types) THEN st
    ELSE DetectTypes(DetectType(st, store, current_date, previous_date,
                                professional_types[i], timestamp),
                     store, current_date, previous_date, professional_types,
                     timestamp, i + 1)

detect_all_events(store, current_date, previous_date, professional_types, timestamp) ==
    DetectTypes([raised |-> FALSE, error |-> None, events |-> << >>,
                 warnings |-> << >>],
                store, current_date, previous_date, professional_types,
                timestamp, 1)

(* Inputs of the detection.                                                *)
MaxTime == 3

ProfessionalTypes == <<"dentist", "hygienist", "dental_assistant">>

CurrentDate == "2024-12-23"

PreviousDate == "2024-12-22"

AllColumns == CurrentColumns \cup {"LIC_ID"}

License(LIC_ID, LIC_NBR, LIC_STA_CDE) ==
    [c \in AllColumns \cup {"LAST_MNE"} |->
        CASE c = "LIC_ID" -> LIC_ID
          [] c = "LIC_NBR" -> LIC_NBR
          [] c = "LIC_STA_CDE" -> LIC_STA_CDE
          [] OTHER -> "text"]

Snapshot(columns, rows) == [columns |-> columns, rows |-> rows]

(* The previous snapshots: two licenses, one active and one expired; a     *)
(* cancelled license whose number was issued again to a new holder; the    *)
(* cancelled license before its number was issued again.                   *)
PreviousSnapshots ==
    { Snapshot(AllColumns, << License("1", "100", "20"), License("2", "200", "45") >>),
      Snapshot(AllColumns, << License("1", "100", "60"), License("5", "100", "20") >>),
      Snapshot(AllColumns, << License("1", "100", "60") >>) }

(* The current snapshots: the first license expired, the second            *)
(* reinstated, a third new and active, a fourth new and cancelled; the     *)
(* reissued number, nothing changed; a new license with an empty status    *)
(* cell; the first one without the column CITY; the first one with the     *)
(* column LAST_NME under its former name LAST_MNE.                         *)
CurrentSnapshots ==
    { Snapshot(AllColumns,
               << License("1", "100", "45"), License("2", "200", "20"),
                  License("3", "300", "20"), License("4", "400", "60") >>),
      Snapshot(AllColumns, << License("1", "100", "60"), License("5", "100", "20") >>),
      Snapshot(AllColumns,
               << License("1", "100", "20"), License("2", "200", "45"),
                  License("3", "300", NaN) >>),
      Snapshot(AllColumns \ {"CITY"},
               << License("1", "100", "45"), License("2", "200", "20"),
                  License("3", "300", "20"), License("4", "400", "60") >>),
      Snapshot((AllColumns \ {"LAST_NME"}) \cup {"LAST_MNE"},
               << License("1", "100", "45"), License("2", "200", "20"),
                  License("3", "300", "20"), License("4", "400", "60") >>) }

CurrentDirectoryFiles ==
    { NoSnapshot,
      Snapshot(AllColumns, << License("1", "100", "20"), License("2", "200", "45") >>) }

(* The stores: for each professional type a current and a previous         *)
(* snapshot or none; the directory "current" holds at most a dentist file. *)
Stores ==
    { [dated |-> [d \in {CurrentDate, PreviousDate} |->
                    [t \in {"dentist", "hygienist", "dental_assistant"} |->
                        IF t = "dental_assistant" THEN NoSnapshot
                        ELSE IF d = CurrentDate
                        THEN (IF t = "dentist" THEN cd ELSE ch)
                        ELSE (IF t = "dentist" THEN pd ELSE ph)]],
       current |-> [t \in {"dentist", "hygienist", "dental_assistant"} |->
                      IF t = "dentist" THEN cur ELSE NoSnapshot]] :
        cd \in CurrentSnapshots \cup {NoSnapshot},
        ch \in CurrentSnapshots \cup {NoSnapshot},
        pd \in PreviousSnapshots \cup {NoSnapshot},
        ph \in PreviousSnapshots \cup {NoSnapshot},
        cur \in CurrentDirectoryFiles }

(* No events file has been written.                                        *)
NoOutput == [written |-> FALSE]

InitDetect ==
    /\ queue = << >>
    /\ history = << >>
    /\ suppressions = << >>
    /\ loads = << >>
    /\ exports = << >>
    /\ now = 0
    /\ inflight = [p \in Procs |-> Idle]
    /\ validation = NotStarted
    /\ \E store \in Stores :
          detection = [stage |-> "ready", store |-> store, time |-> 0,
                       output |-> NoOutput, traceback |-> None]

(* main(): detect_all_events(current_date, previous_date), then            *)
(* save_events; an exception ends the command before anything is saved.    *)
Detect ==
    /\ detection.stage = "ready"
    /\ LET r == detect_all_events(detection.store, CurrentDate, PreviousDate,
                                  ProfessionalTypes, detection.time)
       IN  detection' =
              IF r.raised
              THEN [detection EXCEPT !.traceback = r.error]
              ELSE [detection EXCEPT
                      !.traceback = None,
                      !.output = [written |-> TRUE, events |-> r.events,
                                  warnings |-> r.warnings]]
    /\ UNCHANGED <<queue, history, suppressions, loads, exports, now, inflight,
                   validation>>

(* Time passes between two runs of the command.                            *)
TickClock ==
    /\ detection.stage = "ready"
    /\ detection.time < MaxTime
    /\ detection' = [detection EXCEPT !.time = @ + 1]
    /\ UNCHANGED <<queue, history, suppressions, loads, exports, now, inflight,
                   validation>>

NextDetect == Detect \/ TickClock

SpecDetect == InitDetect /\ [][NextDetect]_vars

-----------------------------------------------------------------------------
(* Shared vocabulary of the properties.                                    *)

Indices(q) == 1..Len(q)

(* A status change the lifecycle allows: one step along                    *)
(* queued -> approved -> sent, or an active status to cancelled / failed.  *)
AllowedChange(a, b) ==
    \/ a = b
    \/ <<a, b>> \in {<<"queued", "approved">>, <<"approved", "sent">>}
    \/ a \in ActiveStatuses /\ b \in {"cancelled", "failed"}

(* Both collections only grow, keep every record at its place, and change  *)
(* statuses only in allowed ways.                                          *)
StatusesAdvance(old, new) ==
    /\ Len(new) >= Len(old)
    /\ \A i \in Indices(old) :
          /\ new[i].export_id = old[i].export_id
          /\ AllowedChange(old[i].status, new[i].status)

-----------------------------------------------------------------------------
(* C1: over enqueue, approve, send and quarantine, the status of every     *)
(* export record (of the queue and of the registry) changes only along     *)
(* queued -> approved -> sent or from an active status to cancelled or     *)
(* failed; a sent, failed or cancelled record never returns to queued or   *)
(* approved, and a cancelled or failed record never becomes sent.          *)
C1_StatusOnlyAdvances ==
    [][StatusesAdvance(queue, queue') /\ StatusesAdvance(exports, exports')]_vars

(* A queue record was approved and sent, another approved and failed, and  *)
(* quarantine cancelled a pending record of the registry.                  *)
C1_Witness ==
    /\ \E i \in Indices(queue) : queue[i].status = "sent"
    /\ \E i \in Indices(queue) : queue[i].status = "failed"
    /\ \E j \in Indices(exports) : exports[j].status = "cancelled"

(* C3: after quarantine(loadId, reason) every record enqueue created with  *)
(* data_load_id = loadId that was queued, approved or scheduled is         *)
(* cancelled with an error message naming the reason, exportsCancelled     *)
(* counts them, and no other record changes status.                        *)
C3_QuarantineCancelsEnqueued ==
    [][\A load_id \in LoadIds, reason \in Reasons, reverse_exports \in BOOLEAN :
          Quarantine(load_id, reason, reverse_exports) =>
             LET mine == {i \in Indices(queue) :
                            /\ queue[i].data_load_id = load_id
                            /\ queue[i].status \in ActiveStatuses}
             IN  /\ \A i \in mine :
                       /\ queue'[i].status = "cancelled"
                       /\ queue'[i].error_message = QuarantineMessage(reason)
                 /\ \A i \in Indices(queue) \ mine : queue'[i].status = queue[i].status
                 /\ \E k \in Indices(loads') :
                       /\ loads'[k].load_id = load_id
                       /\ loads'[k].exports_cancelled = Cardinality(mine)
      ]_vars

-----------------------------------------------------------------------------
(* Whether q holds an active record for the pair, stated on its own.       *)
HasActive(q, provider_id, destination) ==
    \E i \in Indices(q) :
        /\ q[i].provider_id = provider_id
        /\ q[i].destination = destination
        /\ q[i].status \in ActiveStatuses

(* No two active records of q share a (provider_id, destination) pair.     *)
OneActivePerPair(q) ==
    \A i, j \in Indices(q) :
        (/\ i # j
         /\ q[i].status \in ActiveStatuses
         /\ q[j].status \in ActiveStatuses
         /\ q[i].provider_id = q[j].provider_id)
        => q[i].destination # q[j].destination

(* What one add_to_queue call on the current state returns.                *)
Enqueued(records, destination) ==
    add_to_queue([queue |-> queue, counts |-> EmptyCounts, now |-> now],
                 records, destination, "L1", 1)

(* C2: in every reachable queue at most one record with status queued,     *)
(* approved or scheduled exists per (provider_id, destination); enqueueing *)
(* a subject that already has an active record for the destination, from   *)
(* an earlier call or from earlier in the same batch, counts it as skipped *)
(* and creates no record.                                                  *)
C2_OneActivePerPair ==
    /\ OneActivePerPair(queue)
    /\ \A records \in BatchesOf(QueueRows), destination \in QueueDestinations :
          LET st == Enqueued(records, destination)
              noid == {i \in DOMAIN records : records[i].provider_id = None}
              dup == {i \in DOMAIN records \ noid :
                        \/ HasActive(queue, records[i].provider_id, destination)
                        \/ \E j \in 1..(i - 1) :
                              records[j].provider_id = records[i].provider_id}
          IN  /\ st.counts.skipped = Cardinality(noid) + Cardinality(dup)
              /\ Len(st.queue) = Len(queue) + Len(records)
                                   - Cardinality(noid) - Cardinality(dup)
              /\ st.counts.queued = Len(st.queue) - Len(queue)
              /\ OneActivePerPair(st.queue)

(* A subject has an active record for a destination next to an earlier,    *)
(* no longer active record for the same pair: the second enqueue went      *)
(* through only after the first record had left the active statuses.       *)
C2_Witness ==
    \E i, j \in Indices(queue) :
        /\ i < j
        /\ queue[i].provider_id = queue[j].provider_id
        /\ queue[i].destination = queue[j].destination
        /\ queue[i].status \notin ActiveStatuses
        /\ queue[j].status = "approved"
        /\ queue[j].approved_by = "auto"

-----------------------------------------------------------------------------
(* C4: a newly enqueued record is approved at creation (approved_by auto,  *)
(* approved_at set) exactly when its destination has the auto-approve flag *)
(* and its match_confidence is at least the destination's threshold;       *)
(* otherwise it is queued.  With threshold 85 (instantly) confidence 84 is *)
(* queued and 85 approved; without the flag (lob_postcard) no confidence   *)
(* is auto-approved.                                                       *)
C4_AutoApproveAtThreshold ==
    /\ \A record \in Candidates, destination \in DOMAIN DESTINATIONS :
          LET st == Enqueued(<<record>>, destination)
              e == st.queue[Len(st.queue)]
              config == DESTINATIONS[destination]
          IN  Len(st.queue) = Len(queue) + 1 =>
                 IF /\ config.auto_approve
                    /\ record.match_confidence >= config.min_confidence_for_auto
                 THEN /\ e.status = "approved"
                      /\ e.approved_by = "auto"
                      /\ e.approved_at = now
                      /\ st.counts.auto_approved = 1
                 ELSE /\ e.status = "queued"
                      /\ e.approved_by = None
                      /\ e.approved_at = NoTime
                      /\ st.counts.auto_approved = 0
    /\ \A i \in Indices(queue) :
          /\ (queue[i].destination = "instantly" /\ queue[i].match_confidence = 85)
                => queue[i].approved_by = "auto" /\ queue[i].status # "queued"
          /\ (queue[i].destination = "instantly" /\ queue[i].match_confidence = 84)
                => queue[i].approved_by # "auto"
          /\ queue[i].destination = "lob_postcard" => queue[i].approved_by # "auto"
          /\ queue[i].status = "queued" => queue[i].approved_at = NoTime

(* Enqueue put a confidence-84 record for instantly in the queue as queued *)
(* and a confidence-85 record for instantly as approved by auto.           *)
C4_Witness ==
    \E i, j \in Indices(queue) :
        /\ queue[i].destination = "instantly"
        /\ queue[i].match_confidence = 84
        /\ queue[i].status = "queued"
        /\ queue[j].destination = "instantly"
        /\ queue[j].match_confidence = 85
        /\ queue[j].status = "approved"
        /\ queue[j].approved_by = "auto"
        /\ queue[j].approved_at = queue[j].queued_at

-----------------------------------------------------------------------------
(* Whether an active suppression entry, scoped to the destination or to    *)
(* all destinations, matches the row by email, license number or NPI.      *)
Blocked(row, destination) ==
    \E k \in Indices(suppressions) :
        /\ suppressions[k].is_active
        /\ suppressions[k].destination \in {None, destination}
        /\ \/ /\ suppressions[k].email # None
              /\ Lower(suppressions[k].email) = Lower(row.email)
           \/ /\ suppressions[k].license_number # None
              /\ suppressions[k].license_number = row.license_number
           \/ /\ suppressions[k].npi # None
              /\ suppressions[k].npi = row.npi_number

(* C5: enqueue creates no record for a candidate that matches, by email,   *)
(* license number or NPI, an active suppression entry whose destination is *)
(* the target or unset, and counts it as suppressed; an inactive entry or  *)
(* one scoped to another destination does not block the candidate.         *)
C5_SuppressedNotEnqueued ==
    \A records \in BatchesOf(SuppressionRows), destination \in QueueDestinations :
        LET st == Enqueued(records, destination)
            known == {i \in DOMAIN records : records[i].provider_id # None}
            blocked == {i \in known : Blocked(records[i], destination)}
            dup == {i \in known \ blocked :
                      \/ HasActive(queue, records[i].provider_id, destination)
                      \/ \E j \in 1..(i - 1) :
                            records[j].provider_id = records[i].provider_id}
            created == (Len(queue) + 1)..Len(st.queue)
        IN  /\ st.counts.suppressed = Cardinality(blocked)
            /\ \A k \in created : ~Blocked(st.queue[k].payload, destination)
            /\ {st.queue[k].payload : k \in created}
                 = {records[i] : i \in (known \ blocked) \ dup}
            /\ Cardinality(created) = Cardinality((known \ blocked) \ dup)

(* The list holds an active entry scoped to instantly that names Bob's     *)
(* license; Bob has a record for ghl, which the entry does not block, and  *)
(* no active record for instantly.                                         *)
C5_Witness ==
    /\ \E k \in Indices(suppressions) :
          /\ suppressions[k].is_active
          /\ suppressions[k].destination = "instantly"
          /\ suppressions[k].license_number = "LIC2"
    /\ \E i \in Indices(queue) :
          queue[i].provider_id = "p2" /\ queue[i].destination = "ghl"
    /\ ~HasActive(queue, "p2", "instantly")

(* C6: at the moment a record becomes sent no active suppression entry     *)
(* matching it (scoped to its destination or to all) exists, also when the *)
(* entry was added after the record was enqueued or approved.              *)
C6_NeverSentWhileSuppressed ==
    [][\A i \in Indices(queue) :
          (queue[i].status # "sent" /\ queue'[i].status = "sent")
             => ~Blocked(queue[i].payload, queue[i].destination)]_vars

-----------------------------------------------------------------------------
(* Number of history entries for the export.                               *)
HistoryCount(h, export_id) ==
    Cardinality({k \in Indices(h) : h[k].export_id = export_id})

(* The record of q with the id (ids are unique in q).                      *)
Record(q, export_id) ==
    q[CHOOSE i \in Indices(q) : q[i].export_id = export_id]

(* C7: for each record send processes, a sender answer without error makes *)
(* the record sent, with sent_at and the returned external_id, and appends *)
(* exactly one history entry for it; an answer with an error makes it      *)
(* failed, with the error as message, and appends no history entry.  The   *)
(* history always holds exactly one entry per record that reached sent.    *)
C7_SendOutcomeAndLedger ==
    /\ \A i, j \in Indices(queue) : queue[i].export_id = queue[j].export_id => i = j
    /\ \A i \in Indices(queue) :
          HistoryCount(history, queue[i].export_id)
             = IF queue[i].status = "sent" THEN 1 ELSE 0
    /\ \A k \in Indices(history) :
          \E i \in Indices(queue) : queue[i].export_id = history[k].export_id
    /\ \A destination \in QueueDestinations, limit \in 0..MaxLimit :
          \A rets \in SendReturns(queue, now, destination, limit, FALSE) :
             LET r == cmd_send(queue, history, now, destination, limit, FALSE, rets)
                 ok == {k \in DOMAIN r.attempted : rets[k].error = None}
             IN  /\ Len(r.history) = Len(history) + Cardinality(ok)
                 /\ \A k \in DOMAIN r.attempted :
                       LET id == r.attempted[k].export_id
                           e == Record(r.queue, id)
                       IN  IF k \in ok
                           THEN /\ e.status = "sent"
                                /\ e.sent_at = now
                                /\ e.external_id = rets[k].external_id
                                /\ HistoryCount(r.history, id) = 1
                                /\ HistoryCount(history, id) = 0
                           ELSE /\ e.status = "failed"
                                /\ e.error_message = rets[k].error
                                /\ e.sent_at = NoTime
                                /\ HistoryCount(r.history, id) = 0

(* One record was sent and carries the vendor's id, another failed and     *)
(* carries the error, and the history holds the one entry of the former.   *)
C7_Witness ==
    /\ \E i \in Indices(queue) :
          /\ queue[i].status = "sent"
          /\ queue[i].external_id = "contact"
          /\ queue[i].sent_at # NoTime
    /\ \E j \in Indices(queue) :
          queue[j].status = "failed" /\ queue[j].error_message = "HTTP 500"
    /\ Len(history) = 1

-----------------------------------------------------------------------------
(* No operation changes a failed record, and no call of get_ready_to_send  *)
(* returns one.                                                            *)
FailedNotReady ==
    \A destination \in QueueDestinations \cup {None}, limit \in 0..MaxLimit :
        LET ready == get_ready_to_send(queue, now, destination, limit, 1, << >>)
        IN  \A k \in DOMAIN ready : ready[k].status # "failed"

FailedUntouched ==
    \A i \in Indices(queue) :
        queue[i].status = "failed" => (i \in Indices(queue') /\ queue'[i] = queue[i])

(* C8: a failed record is never returned by getReadyToSend and never       *)
(* handed to a sender again by a later send or approve; it stays failed    *)
(* forever, and its subject is sent only through a new record that a later *)
(* enqueue creates.                                                        *)
C8_FailedIsFinal ==
    []FailedNotReady /\ [][FailedUntouched]_vars

(* A record failed, and the same subject was sent to the same destination  *)
(* through a record enqueued later.                                        *)
C8_Witness ==
    \E i, j \in Indices(queue) :
        /\ queue[i].status = "failed"
        /\ queue[j].status = "sent"
        /\ queue[j].provider_id = queue[i].provider_id
        /\ queue[j].destination = queue[i].destination
        /\ queue[j].queued_at > queue[i].queued_at

-----------------------------------------------------------------------------
-----------------------------------------------------------------------------
(* Whether getReadyToSend(destination) may return the record at time t.    *)
Qualifies(export, destination, t) ==
    /\ export.status = "approved"
    /\ destination = None \/ export.destination = destination
    /\ export.scheduled_send_at = NoTime \/ export.scheduled_send_at <= t

(* C10: getReadyToSend(destination, limit) returns only records that are   *)
(* approved, have the requested destination and a scheduled_send_at that   *)
(* is absent or not later than now; it returns them oldest queued_at       *)
(* first, and skips no qualifying record in favour of a younger one.       *)
C10_ReadyAreDueOldestFirst ==
    \A destination \in ScheduleDestinations \cup {None}, limit \in 0..MaxLimit :
        LET ready == get_ready_to_send(queue, now, destination, limit, 1, << >>)
            ids == {ready[k].export_id : k \in DOMAIN ready}
        IN  /\ \A k \in DOMAIN ready :
                  /\ Qualifies(ready[k], destination, now)
                  /\ \E i \in Indices(queue) : queue[i] = ready[k]
            /\ \A k, m \in DOMAIN ready :
                  k < m => /\ ready[k].queued_at <= ready[m].queued_at
                           /\ ready[k].export_id # ready[m].export_id
            /\ \A i \in Indices(queue) :
                  (Qualifies(queue[i], destination, now) /\ queue[i].export_id \notin ids)
                     => \A k \in DOMAIN ready : ready[k].queued_at <= queue[i].queued_at

(* Two approved postcard records, the cooling-off period of the older one  *)
(* over and that of the younger one still running.                         *)
C10_Witness ==
    \E i, j \in Indices(queue) :
        /\ queue[i].destination = "lob_postcard"
        /\ queue[j].destination = "lob_postcard"
        /\ queue[i].status = "approved"
        /\ queue[j].status = "approved"
        /\ queue[i].scheduled_send_at <= now
        /\ queue[j].scheduled_send_at > now

-----------------------------------------------------------------------------
(* C11: for a destination with delay_hours > 0 every record gets           *)
(* scheduled_send_at = enqueue time + delay_hours, auto-approved or left   *)
(* queued alike, and no record is ready, handed to a sender or sent        *)
(* before its scheduled_send_at, also after a later manual approval.       *)
C11_CoolingOffRespected ==
    /\ \A record \in Candidates, destination \in DOMAIN DESTINATIONS :
          LET st == Enqueued(<<record>>, destination)
              e == st.queue[Len(st.queue)]
              delay_hours == DESTINATIONS[destination].delay_hours
          IN  Len(st.queue) = Len(queue) + 1 =>
                 e.scheduled_send_at
                    = IF delay_hours > 0 THEN now + delay_hours ELSE NoTime
    /\ \A i \in Indices(queue) :
          LET delay_hours == DESTINATIONS[queue[i].destination].delay_hours IN
          /\ delay_hours > 0 =>
                queue[i].scheduled_send_at = queue[i].queued_at + delay_hours
          /\ queue[i].status = "sent" => queue[i].sent_at >= queue[i].scheduled_send_at
    /\ \A destination \in DOMAIN DESTINATIONS \cup {None}, limit \in 0..MaxLimit :
          \A rets \in SendReturns(queue, now, destination, limit, FALSE) :
             LET r == cmd_send(queue, history, now, destination, limit, FALSE, rets)
             IN  /\ \A k \in DOMAIN r.ready : r.ready[k].scheduled_send_at <= now
                 /\ \A k \in DOMAIN r.attempted : r.attempted[k].scheduled_send_at <= now
                 /\ \A i \in Indices(queue) :
                       queue[i].scheduled_send_at > now => r.queue[i] = queue[i]

(* A postcard record that was left queued at enqueue carries its           *)
(* cooling-off time, was approved by hand, and is still waiting; another   *)
(* one has waited long enough.                                             *)
C11_Witness ==
    \E i, j \in Indices(queue) :
        /\ queue[i].destination = "lob_postcard"
        /\ queue[i].status = "approved"
        /\ queue[i].approved_by = "manual-cli"
        /\ queue[i].scheduled_send_at = queue[i].queued_at + 24
        /\ queue[i].scheduled_send_at > now
        /\ queue[j].destination = "lob_postcard"
        /\ queue[j].approved_by = "manual-cli"
        /\ queue[j].scheduled_send_at <= now

-----------------------------------------------------------------------------
(* Whether the record passes every filter approveExports was given: the    *)
(* ids list when one is given (the empty list included), the destination   *)
(* when one is given, and the minimum confidence.                          *)
PassesFilters(export, export_ids, destination, min_confidence) ==
    /\ export.status = "queued"
    /\ export_ids.given => export.export_id \in export_ids.ids
    /\ destination # None => export.destination = destination
    /\ export.match_confidence >= min_confidence

(* C12: approveExports changes exactly the queued records that match every *)
(* filter given (export_id in ids when an ids list is given, the empty     *)
(* list included; destination when given; match_confidence at least        *)
(* minConfidence): those become approved with approver and approved_at,    *)
(* the returned count is their number, and every other record is left      *)
(* unchanged.                                                              *)
C12_ApprovesExactlyTheMatching ==
    \A export_ids \in ExportIdsArgs(queue), destination \in QueueDestinations \cup {None},
       min_confidence \in MinConfidenceArgs, approver \in Approvers :
        LET r == approve_exports(queue, export_ids, destination, min_confidence,
                                 approver, now)
            hits == {i \in Indices(queue) :
                       PassesFilters(queue[i], export_ids, destination, min_confidence)}
        IN  /\ r.count = Cardinality(hits)
            /\ Len(r.queue) = Len(queue)
            /\ \A i \in Indices(queue) :
                  IF i \in hits
                  THEN r.queue[i] = [queue[i] EXCEPT !.status = "approved",
                                                     !.approved_at = now,
                                                     !.approved_by = approver]
                  ELSE r.queue[i] = queue[i]

-----------------------------------------------------------------------------
(* The sent records of the load in the registry, as indices of exports.    *)
SentOf(load_id) ==
    {i \in Indices(exports) :
        exports[i].data_load_id = load_id /\ exports[i].status = "sent"}

(* Number of reversal failures listed for the export.                      *)
FailuresFor(failures, export_id) ==
    Cardinality({k \in Indices(failures) : failures[k].export_id = export_id})

(* Number of reversal calls made to the destination for the export.        *)
CallsFor(calls, export_id) ==
    Cardinality({k \in Indices(calls) : calls[k] = export_id})

(* C13: with reverseExports = true, quarantine accounts for every sent     *)
(* record of the load, whatever its destination: each one ends stamped     *)
(* reversed_at and counted in exportsReversed, or listed in                *)
(* reversalFailures, so exportsReversed + exportsFailedReversal equals the *)
(* number of sent records of the load.                                     *)
C13_EverySentRecordAccounted ==
    \A load_id \in LoadIds, reason \in Reasons :
        \A oks \in ReverseReturns(exports, load_id, TRUE) :
           LET r == quarantine_load(loads, exports, now, load_id, reason, TRUE, oks)
           IN  /\ r.exports_reversed + r.exports_failed_reversal
                     = Cardinality(SentOf(load_id))
               /\ r.exports_failed_reversal = Len(r.reversal_failures)
               /\ \A i \in SentOf(load_id) :
                     \/ FailuresFor(r.reversal_failures, exports[i].export_id) = 1
                     \/ /\ "reversed_at" \in DOMAIN r.exports[i]
                        /\ r.exports[i].reversed_at = now

-----------------------------------------------------------------------------
(* C14: with reverseExports = true, a sent record of a non-reversible      *)
(* destination (instantly, webhook) yields exactly one reversalFailure, no *)
(* call to the destination and no reversed_at stamp; a sent record of a    *)
(* reversible destination whose reversal call succeeds is stamped          *)
(* reversed_at, keeps status sent and yields no reversalFailure; a         *)
(* reversal call that fails yields exactly one reversalFailure and no      *)
(* stamp.                                                                  *)
C14_ReversalOutcomePerRecord ==
    \A load_id \in LoadIds, reason \in Reasons :
        \A oks \in ReverseReturns(exports, load_id, TRUE) :
           LET r == quarantine_load(loads, exports, now, load_id, reason, TRUE, oks)
               sent_exports == get_exports_for_load(exports, load_id, "sent")
           IN  \A k \in DOMAIN sent_exports :
                  LET e == sent_exports[k]
                      after == Record(r.exports, e.export_id)
                      failures == FailuresFor(r.reversal_failures, e.export_id)
                      calls == CallsFor(r.calls, e.export_id)
                  IN  IF e.destination \in {"instantly", "webhook"}
                      THEN /\ failures = 1
                           /\ calls = 0
                           /\ "reversed_at" \notin DOMAIN after
                           /\ after = e
                      ELSE IF e.destination \in {"ghl", "lob_postcard", "lob_letter"}
                      THEN IF e.external_id # None /\ oks[k]
                           THEN /\ after.reversed_at = now
                                /\ after.reversal_reason = QuarantineMessage(reason)
                                /\ after.status = "sent"
                                /\ failures = 0
                                /\ calls = 1
                           ELSE /\ failures = 1
                                /\ calls = 1
                                /\ after = e
                      ELSE TRUE

(* Quarantine with reversal ran for load L1: its sent ghl record carries   *)
(* the stamp and is still sent, its sent webhook record carries none, and  *)
(* the load's entry counts one reversed export.                            *)
C14_Witness ==
    /\ \E i \in Indices(exports) :
          /\ exports[i].destination = "ghl"
          /\ exports[i].status = "sent"
          /\ "reversed_at" \in DOMAIN exports[i]
    /\ \E j \in Indices(exports) :
          /\ exports[j].destination = "webhook"
          /\ exports[j].status = "sent"
          /\ exports[j].data_load_id = "L1"
          /\ "reversed_at" \notin DOMAIN exports[j]
    /\ \E k \in Indices(loads) :
          /\ loads[k].load_id = "L1"
          /\ loads[k].exports_reversed = 1

-----------------------------------------------------------------------------
(* The entries of ls for the load, as indices.                             *)
EntriesOf(ls, load_id) == {k \in Indices(ls) : ls[k].load_id = load_id}

(* C15: after quarantine(loadId, reason) the registry holds exactly one    *)
(* entry with that load_id, with status quarantined, the reason and a      *)
(* quarantine timestamp, whether or not the load was registered before;    *)
(* repeating the quarantine creates no second entry, and no other load's   *)
(* entry is changed or removed.                                            *)
C15_OneQuarantinedEntryPerLoad ==
    /\ \A load_id \in LoadIds \cup {"L0"} : Cardinality(EntriesOf(loads, load_id)) <= 1
    /\ \A load_id \in LoadIds, reason \in Reasons, reverse_exports \in BOOLEAN :
          \A oks \in ReverseReturns(exports, load_id, reverse_exports) :
             LET r == quarantine_load(loads, exports, now, load_id, reason,
                                      reverse_exports, oks)
                 registered == EntriesOf(loads, load_id) # {}
             IN  /\ Cardinality(EntriesOf(r.loads, load_id)) = 1
                 /\ \A k \in EntriesOf(r.loads, load_id) :
                       /\ r.loads[k].status = "quarantined"
                       /\ r.loads[k].quarantine_reason = reason
                       /\ r.loads[k].quarantined_at = now
                       /\ registered => k \in EntriesOf(loads, load_id)
                 /\ Len(r.loads) = Len(loads) + (IF registered THEN 0 ELSE 1)
                 /\ \A k \in Indices(loads) \ EntriesOf(loads, load_id) :
                       r.loads[k] = loads[k]

(* Both loads were quarantined, L1 that was registered before (its entry   *)
(* keeps its source file) and L2 that was not; each has one entry, and the *)
(* entry of L0 is as it was.                                               *)
C15_Witness ==
    /\ Len(loads) = 3
    /\ loads[1] = [load_id |-> "L0", status |-> "promoted", source_file |-> "f0.csv"]
    /\ loads[2].load_id = "L1"
    /\ loads[2].status = "quarantined"
    /\ loads[2].source_file = "f1.csv"
    /\ loads[3].load_id = "L2"
    /\ loads[3].status = "quarantined"
    /\ loads[3].quarantined_at > loads[2].quarantined_at

-----------------------------------------------------------------------------
(* What a step keeps of the updates completed before it: every record of   *)
(* the queue is still there, what was written to it (approval, outcome of  *)
(* the send) is still on it, and the history has lost no entry.            *)
CompletedUpdatesSurvive ==
    /\ \A i \in Indices(queue) :
          /\ i \in Indices(queue')
          /\ queue'[i].export_id = queue[i].export_id
          /\ queue[i].status # "queued" => queue'[i].status # "queued"
          /\ queue[i].approved_by # None =>
                /\ queue'[i].approved_by = queue[i].approved_by
                /\ queue'[i].approved_at = queue[i].approved_at
          /\ queue[i].status \in {"sent", "failed"} => queue'[i] = queue[i]
    /\ \A k \in Indices(history) :
          k \in Indices(history') /\ history'[k] = history[k]

(* C16: when two processes run queue or registry operations concurrently   *)
(* (enqueue and send, approve and send, ...) every completed update to a   *)
(* record survives: an update one process made to one record is never      *)
(* overwritten or undone by another process's write concerning a different *)
(* record, and no created record is lost.                                  *)
C16_ConcurrentUpdatesSurvive ==
    [][CompletedUpdatesSurvive]_vars

-----------------------------------------------------------------------------
(* C17: for every destination known to the export queue the quarantine     *)
(* manager has a reversal handler, and the handler's is_reversible answer  *)
(* equals the is_reversible flag of the queue's DestinationConfig; the two *)
(* views differ for no destination, in particular for none that a record   *)
(* of the queue or of the registry names.                                  *)
C17_ReversibilityViewsAgree ==
    /\ \A destination \in DOMAIN DESTINATIONS :
          /\ destination \in DOMAIN DESTINATION_HANDLERS
          /\ is_reversible(DESTINATION_HANDLERS[destination])
                = DESTINATIONS[destination].is_reversible
    /\ \A i \in Indices(queue) : queue[i].destination \in DOMAIN DESTINATION_HANDLERS
    /\ \A j \in Indices(exports) :
          "reversed_at" \in DOMAIN exports[j] =>
             /\ exports[j].destination \in DOMAIN DESTINATIONS
             /\ DESTINATIONS[exports[j].destination].is_reversible

(* Both sides have consulted their table: the queue holds a record it      *)
(* enqueued for ghl, and the quarantine manager has reversed a ghl record  *)
(* and refused to reverse a webhook record of the same load.               *)
C17_Witness ==
    /\ \E i \in Indices(queue) : queue[i].destination = "ghl"
    /\ \E j, k \in Indices(exports) :
          /\ exports[j].destination = "ghl"
          /\ "reversed_at" \in DOMAIN exports[j]
          /\ exports[k].destination = "webhook"
          /\ exports[k].data_load_id = exports[j].data_load_id
          /\ exports[k].status = "sent"
          /\ "reversed_at" \notin DOMAIN exports[k]

-----------------------------------------------------------------------------
(* Vocabulary of the validation properties, over a run v of                *)
(* validate_load.py that has validated.                                    *)

Validated == validation.stage \in {"validated", "exited"}

Implemented(v, i) == v.rules[i].name \in ImplementedRules

(* What the function of rule i returns when it does not raise.             *)
Returned(v, i) == rule_fn(v.rules[i].name, v.df, v.prev_df, v.rules[i].params)

(* Rule i ends as a failed result of severity error: it raised, or it      *)
(* returned one.                                                           *)
FailsAsError(v, i) ==
    /\ Implemented(v, i)
    /\ \/ i \in v.raising
       \/ Returned(v, i).severity = "error" /\ ~Returned(v, i).passed

(* Rule i ends as a warning: its name is unknown, or it returned a result  *)
(* of severity warning, failed or skipped.                                 *)
EndsAsWarning(v, i) ==
    \/ ~Implemented(v, i)
    \/ i \notin v.raising /\ Returned(v, i).severity = "warning"

PassedIffNoErrorFailed ==
    Validated =>
        (validation.result.passed
            <=> \A i \in Indices(validation.rules) : ~FailsAsError(validation, i))

WarningsNeverFail ==
    Validated =>
        /\ (\A i \in Indices(validation.rules) :
               EndsAsWarning(validation, i) \/ ~FailsAsError(validation, i))
           => validation.result.passed
        /\ \A i \in Indices(validation.rules) :
              EndsAsWarning(validation, i) =>
                  \E k \in Indices(validation.result.warnings) :
                     /\ validation.result.warnings[k].rule_name[1]
                           = validation.rules[i].name
                     /\ validation.result.warnings[k].severity = "warning"

ExitCodeTellsPassed ==
    validation.stage = "exited" =>
        (validation.exit_code = 0 <=> validation.result.passed)

(* C18: the overall passed of a validation is true exactly when no rule    *)
(* ended as a failed result of severity error (a rule that raised          *)
(* included); results of severity warning and unknown rule names never     *)
(* make it false and are all in the warnings list; and the exit code of    *)
(* the command is 0 exactly when passed is true.                           *)
C18_PassedAndExitCode ==
    /\ PassedIffNoErrorFailed
    /\ WarningsNeverFail
    /\ ExitCodeTellsPassed

(* The positions 1..n of the rules with an implementation, in order.       *)
RECURSIVE ImplementedPositions(_, _)
ImplementedPositions(v, n) ==
    IF n = 0 THEN << >>
    ELSE IF Implemented(v, n)
    THEN Append(ImplementedPositions(v, n - 1), n)
    ELSE ImplementedPositions(v, n - 1)

RaisedResults(results) ==
    {k \in Indices(results) : results[k].message[1] = "Rule execution failed"}

(* C19: every configured rule that has an implementation is called, once   *)
(* and in the configured order, whatever the earlier rules did; each rule  *)
(* that raises leaves one failed result of severity error that carries the *)
(* text of the exception; a rule name without implementation leaves one    *)
(* warning, stops nothing and is no error.                                 *)
C19_EveryRuleEvaluatedInOrder ==
    Validated =>
        LET v == validation
            errors == v.result.errors
            warnings == v.result.warnings
        IN  /\ v.result.calls = ImplementedPositions(v, Len(v.rules))
            /\ \A i \in v.raising :
                  Implemented(v, i) =>
                     Cardinality({k \in RaisedResults(errors) :
                                    errors[k].rule_name = <<v.rules[i].name>>})
                        = Cardinality({j \in v.raising :
                                         v.rules[j].name = v.rules[i].name})
            /\ Cardinality(RaisedResults(errors))
                  = Cardinality({i \in v.raising : Implemented(v, i)})
            /\ \A k \in RaisedResults(errors) :
                  /\ errors[k].severity = "error"
                  /\ ~errors[k].passed
                  /\ errors[k].message = <<"Rule execution failed", RuleError>>
            /\ \A i \in Indices(v.rules) :
                  ~Implemented(v, i) =>
                     /\ Cardinality({k \in Indices(warnings) :
                           warnings[k] = ValidationResult(<<v.rules[i].name>>,
                              FALSE, "warning",
                              <<"Unknown rule", v.rules[i].name>>)}) = 1
                     /\ \A k \in Indices(errors) :
                           errors[k].rule_name[1] # v.rules[i].name
                     /\ (v.result.passed <=>
                           \A j \in Indices(v.rules) \ {i} : ~FailsAsError(v, j))

(* A run in which a rule raised and an unknown name was listed, both       *)
(* before the last rule, which was called all the same.                    *)
C19_Witness ==
    /\ validation.stage = "validated"
    /\ \E i \in validation.raising : i < Len(validation.rules)
    /\ \E i \in Indices(validation.rules) :
          ~Implemented(validation, i) /\ i < Len(validation.rules)
    /\ validation.result.calls[Len(validation.result.calls)]
          = Len(validation.rules)

(* The values of max_delta_pct the rule is tried with: 0.10, 0.20, 0.35.   *)
DeltaThresholds == {1000, 2000, 3500}

DeltaPasses(df, prev_df, max_delta_pct) ==
    row_count_delta(df, prev_df, max_delta_pct).passed

(* C20: with a previous dataset that has rows, row_count_delta fails       *)
(* exactly when the row count moved, up or down, by more than              *)
(* max_delta_pct of the previous count, a move of exactly max_delta_pct    *)
(* passing; with no previous dataset or an empty one the rule is a passing *)
(* warning and puts nothing into the errors of the load.                   *)
C20_RowCountDelta ==
    Validated =>
        LET df == validation.df
            prev_df == validation.prev_df
            no_previous == prev_df = NoFrame \/ prev_df.rows = 0
        IN  /\ \A max_delta_pct \in DeltaThresholds :
                  LET result == row_count_delta(df, prev_df, max_delta_pct)
                  IN  IF no_previous
                      THEN result.passed /\ result.severity = "warning"
                      ELSE /\ result.severity = "error"
                           /\ ~result.passed <=>
                                 \/ (df.rows - prev_df.rows) * Scale
                                       > max_delta_pct * prev_df.rows
                                 \/ (prev_df.rows - df.rows) * Scale
                                       > max_delta_pct * prev_df.rows
            /\ (~no_previous /\ prev_df.rows = 1000) =>
                  /\ df.rows = 1300 =>
                        /\ ~DeltaPasses(df, prev_df, 2000)
                        /\ DeltaPasses(df, prev_df, 3500)
                  /\ df.rows = 700 => ~DeltaPasses(df, prev_df, 2000)
                  /\ df.rows \in {800, 1200} => DeltaPasses(df, prev_df, 2000)
                  /\ df.rows = 1350 => DeltaPasses(df, prev_df, 3500)
            /\ no_previous =>
                  \A i \in Indices(validation.rules) :
                     (validation.rules[i].name = "row_count_delta"
                         /\ i \notin validation.raising) =>
                        /\ ~FailsAsError(validation, i)
                        /\ \A k \in Indices(validation.result.errors) :
                              validation.result.errors[k].rule_name
                                 # <<"row_count_delta">>
                        /\ \E k \in Indices(validation.result.warnings) :
                              validation.result.warnings[k]
                                 = row_count_delta(df, prev_df,
                                      validation.rules[i].params.max_delta_pct)

(* A load of 700 rows after one of 1000 was validated against 0.20 and the *)
(* delta rule is among its errors.                                         *)
C20_Witness ==
    /\ validation.stage = "validated"
    /\ validation.prev_df # NoFrame
    /\ validation.prev_df.rows = 1000
    /\ validation.df.rows = 700
    /\ \E k \in Indices(validation.result.errors) :
          validation.result.errors[k].rule_name = <<"row_count_delta">>

(* A load that grew from 1000 rows to exactly 1200 was validated against   *)
(* 0.20 and no error names the delta rule.                                 *)
C20_WitnessAtThreshold ==
    /\ validation.stage = "validated"
    /\ validation.prev_df # NoFrame
    /\ validation.prev_df.rows = 1000
    /\ validation.df.rows = 1200
    /\ validation.raising = {}
    /\ \A k \in Indices(validation.result.errors) :
          validation.result.errors[k].rule_name # <<"row_count_delta">>

(* A dataset into which no defect was put: every column is there and       *)
(* complete, no key repeats, every date is valid and in range, there are   *)
(* the rows the source type asks for, the row count is within              *)
(* max_delta_pct of the previous one, and the value counted has its share. *)
NoDefect(v) ==
    LET df == v.df
        rules == SOURCE_CONFIGS[v.source_type].rules
    IN  /\ df.columns = ColumnsOf(v.source_type)
        /\ df.rows >= BaseRows(v.source_type)
        /\ \A c \in df.columns :
              /\ df.populated[c] = df.rows
              /\ df.non_null[c] = df.rows
              /\ df.matching[c] = df.rows
              /\ df.duplicated[c] = 0
              /\ df.dates[c] = [valid |-> df.rows, too_old |-> 0, too_new |-> 0]
        /\ \A i \in Indices(rules) :
              /\ rules[i].name = "row_count_delta"
                    => \/ v.prev_df = NoFrame
                       \/ v.prev_df.rows = 0
                       \/ /\ (df.rows - v.prev_df.rows) * Scale
                                <= rules[i].params.max_delta_pct * v.prev_df.rows
                          /\ (v.prev_df.rows - df.rows) * Scale
                                <= rules[i].params.max_delta_pct * v.prev_df.rows
              /\ rules[i].name = "value_distribution"
                    => df.value_counts[rules[i].params.field][rules[i].params.value]
                          * Scale >= rules[i].params.min_pct * df.rows

KeyOf(v) == SOURCE_CONFIGS[v.source_type].key_fields[1]

(* The run v on its dataset with one row added that repeats a key.         *)
Duplicated(v, holds_value) ==
    [v EXCEPT !.df = WithDuplicateRow(v.df, KeyOf(v), holds_value)]

Outcome(v, i) == <<Returned(v, i).passed, Returned(v, i).severity>>

(* The added row moves rule i across its threshold: the grown row count    *)
(* exceeds max_delta_pct of the previous count, or the row does not hold   *)
(* the counted value and its share drops below min_pct.                    *)
CrossesThreshold(v, i, holds_value) ==
    LET rule == v.rules[i]
    IN  \/ /\ rule.name = "row_count_delta"
           /\ v.prev_df # NoFrame
           /\ v.prev_df.rows > 0
           /\ (v.df.rows + 1 - v.prev_df.rows) * Scale
                 > rule.params.max_delta_pct * v.prev_df.rows
        \/ /\ rule.name = "value_distribution"
           /\ ~holds_value
           /\ v.df.value_counts[rule.params.field][rule.params.value] * Scale
                 < rule.params.min_pct * (v.df.rows + 1)

NoDuplicatesIffNoSharedKey ==
    validation.stage # "none" =>
        (no_duplicates(validation.df, <<KeyOf(validation)>>).passed
            <=> (KeyOf(validation) \in validation.df.columns
                   /\ validation.df.duplicated[KeyOf(validation)] = 0))

CleanPassesEveryRule ==
    (validation.stage # "none" /\ NoDefect(validation)) =>
        /\ \A i \in Indices(validation.rules) :
              Implemented(validation, i) => Returned(validation, i).passed
        /\ validate_load(validation.df, validation.rules,
                         validation.prev_df, {}).passed

(* C21 as stated: a dataset with no defect passes every rule of its source *)
(* type; with one row added that repeats a key, no_duplicates fails (it    *)
(* fails exactly when two rows share the key), every other rule returns    *)
(* what it returned before, and the load has exactly one error.            *)
C21_DuplicateRowFailsOnlyNoDuplicates ==
    /\ NoDuplicatesIffNoSharedKey
    /\ CleanPassesEveryRule
    /\ (validation.stage # "none" /\ NoDefect(validation)) =>
          \A holds_value \in BOOLEAN :
             LET v == validation
                 w == Duplicated(validation, holds_value)
                 errors == validate_load(w.df, w.rules, w.prev_df, {}).errors
             IN  /\ \A i \in Indices(v.rules) :
                       Implemented(v, i) =>
                          IF v.rules[i].name = "no_duplicates"
                          THEN ~Returned(w, i).passed
                          ELSE Outcome(w, i) = Outcome(v, i)
                 /\ Len(errors) = 1
                 /\ errors[1].rule_name = <<"no_duplicates">>

(* C21 as amended: the same, but for a rule that the added row moves       *)
(* across its threshold, which then fails as well; when the row moves no   *)
(* rule across its threshold the load has exactly one error.               *)
C21_DuplicateRowAmended ==
    /\ NoDuplicatesIffNoSharedKey
    /\ CleanPassesEveryRule
    /\ (validation.stage # "none" /\ NoDefect(validation)) =>
          \A holds_value \in BOOLEAN :
             LET v == validation
                 w == Duplicated(validation, holds_value)
                 errors == validate_load(w.df, w.rules, w.prev_df, {}).errors
             IN  /\ \A i \in Indices(v.rules) :
                       Implemented(v, i) =>
                          IF v.rules[i].name = "no_duplicates"
                          THEN ~Returned(w, i).passed
                          ELSE IF CrossesThreshold(v, i, holds_value)
                          THEN ~Returned(w, i).passed
                          ELSE Outcome(w, i) = Outcome(v, i)
                 /\ (\A i \in Indices(v.rules) :
                        ~CrossesThreshold(v, i, holds_value))
                       => /\ Len(errors) = 1
                          /\ errors[1].rule_name = <<"no_duplicates">>

(* A clean dataset with one row added that repeats a key was validated:    *)
(* its one error is that of no_duplicates.                                 *)
C21_Witness ==
    /\ validation.stage = "validated"
    /\ validation.raising = {}
    /\ validation.df.rows = BaseRows(validation.source_type) + 1
    /\ validation.df.duplicated[KeyOf(validation)] = 2
    /\ Len(validation.result.errors) = 1
    /\ validation.result.errors[1].rule_name = <<"no_duplicates">>

(* C28: field_populated passes only when the share of values that are      *)
(* neither null nor blank is greater than the threshold, a share equal to  *)
(* the threshold not passing; it is a failed error when the column is not  *)
(* in the dataset.                                                         *)
C28_FieldPopulatedExceedsThreshold ==
    validation.stage # "none" =>
        \A i \in Indices(validation.rules) :
           validation.rules[i].name = "field_populated" =>
              LET df == validation.df
                  field == validation.rules[i].params.field
                  min_pct == validation.rules[i].params.min_pct
                  result == field_populated(df, field, min_pct)
              IN  /\ result.severity = "error"
                  /\ field \notin df.columns => ~result.passed
                  /\ result.passed =>
                        /\ field \in df.columns
                        /\ df.populated[field] * Scale > min_pct * df.rows

(* The same with a share equal to the threshold passing: what the code     *)
(* does.                                                                   *)
FieldPopulatedAtLeastThreshold ==
    validation.stage # "none" =>
        \A i \in Indices(validation.rules) :
           validation.rules[i].name = "field_populated" =>
              LET df == validation.df
                  field == validation.rules[i].params.field
                  min_pct == validation.rules[i].params.min_pct
                  result == field_populated(df, field, min_pct)
              IN  /\ result.severity = "error"
                  /\ field \notin df.columns => ~result.passed
                  /\ result.passed <=>
                        /\ field \in df.columns
                        /\ df.rows > 0
                        /\ df.populated[field] * Scale >= min_pct * df.rows

-----------------------------------------------------------------------------
(* C26: for every limit >= 0, getReadyToSend(destination, limit) returns   *)
(* at most limit records, none for limit = 0, so that one send never hands *)
(* more than limit records to the sender.                                  *)
C26_ReadyCappedAtLimit ==
    \A destination \in QueueDestinations \cup {None}, limit \in 0..MaxLimit :
        /\ Len(get_ready_to_send(queue, now, destination, limit, 1, << >>))
              <= limit
        /\ destination # None =>
              \A rets \in SendReturns(queue, now, destination, limit, FALSE) :
                 Len(cmd_send(queue, history, now, destination, limit, FALSE,
                              rets).attempted) <= limit

(* The same for the limits from 1 on.                                      *)
ReadyCappedFromOne ==
    \A destination \in QueueDestinations \cup {None}, limit \in 1..MaxLimit :
        Len(get_ready_to_send(queue, now, destination, limit, 1, << >>)) <= limit

-----------------------------------------------------------------------------
(* C27: a reversal call goes to a destination at most once per sent        *)
(* record: one quarantine calls at most once for a record, and a           *)
(* quarantine of a load with reverseExports = true makes no call for a     *)
(* record that already has reversed_at set.                                *)
C27_ReversalCalledAtMostOnce ==
    \A load_id \in LoadIds, reason \in Reasons :
       \A oks \in ReverseReturns(exports, load_id, TRUE) :
          LET r == quarantine_load(loads, exports, now, load_id, reason, TRUE, oks)
          IN  \A i \in Indices(exports) :
                 /\ CallsFor(r.calls, exports[i].export_id) <= 1
                 /\ "reversed_at" \in DOMAIN exports[i] =>
                       CallsFor(r.calls, exports[i].export_id) = 0

(* Within one quarantine no record is called for twice.                    *)
NoRetryWithinOneQuarantine ==
    \A load_id \in LoadIds, reason \in Reasons :
       \A oks \in ReverseReturns(exports, load_id, TRUE) :
          LET r == quarantine_load(loads, exports, now, load_id, reason, TRUE, oks)
          IN  \A i \in Indices(exports) :
                 CallsFor(r.calls, exports[i].export_id) <= 1

-----------------------------------------------------------------------------
(* C29: each ExportRecord is handed to its sender at most once over its    *)
(* lifetime, also when commands run concurrently on the queue: no record   *)
(* has two entries in the history of sends.                                *)
C29_SentAtMostOnce ==
    \A i, j \in Indices(history) :
        i # j => history[i].export_id # history[j].export_id

-----------------------------------------------------------------------------
LoadQuarantined(load_id) ==
    \E k \in Indices(loads) :
        loads[k].load_id = load_id /\ loads[k].status = "quarantined"

(* C30: once quarantine(loadId) has completed, no record of that load is   *)
(* handed to a sender by a later send, whether it was enqueued before the  *)
(* quarantine or after it: no such record goes to sent or failed.          *)
C30_NoSendAfterQuarantine ==
    [][\A i \in Indices(queue) :
          (/\ LoadQuarantined(queue[i].data_load_id)
           /\ queue[i].status \notin {"sent", "failed"})
             => (i \in Indices(queue') => queue'[i].status \notin {"sent", "failed"})
      ]_vars

-----------------------------------------------------------------------------
(* Vocabulary of the detection properties.                                 *)

TypeSet == {ProfessionalTypes[i] : i \in 1..Len(ProfessionalTypes)}

CurrentOf(ptype) == load_snapshot(detection.store, CurrentDate, ptype)

PreviousOf(ptype) == load_snapshot(detection.store, PreviousDate, ptype)

Loaded(ptype) == CurrentOf(ptype) # NoSnapshot /\ PreviousOf(ptype) # NoSnapshot

EventIds(events) == {events[k].event_id : k \in 1..Len(events)}

CountEvents(events, event_type, license_number) ==
    Cardinality({k \in 1..Len(events) :
                    /\ events[k].event_type = event_type
                    /\ events[k].license_number = license_number})

(* The snapshot with a renamed column under its proper name.               *)
Unaliased(df) ==
    IF "LAST_NME" \notin df.columns /\ "LAST_MNE" \in df.columns
    THEN [df EXCEPT !.columns = (@ \ {"LAST_MNE"}) \cup {"LAST_NME"}]
    ELSE df

(* Both snapshots of the type have every column, under its proper name,    *)
(* every license number once and a number in every status cell.            *)
WellFormed(df) ==
    /\ AllColumns \subseteq df.columns
    /\ \A i, j \in 1..Len(df.rows) :
          df.rows[i].LIC_NBR = df.rows[j].LIC_NBR => i = j
    /\ \A i \in 1..Len(df.rows) : df.rows[i].LIC_STA_CDE \in DOMAIN IntOf

Clean(ptype) ==
    Loaded(ptype) /\ WellFormed(CurrentOf(ptype)) /\ WellFormed(PreviousOf(ptype))

(* C22: two runs of the detection on the same pair of snapshots give the   *)
(* same set of event_ids, whenever each of them runs.                      *)
C22_SameEventIdsOnRerun ==
    [][(detection.stage = "ready" /\ detection.output.written
          /\ detection'.output.written)
         => EventIds(detection'.output.events) = EventIds(detection.output.events)
      ]_vars

(* Two runs on the same day give the same set of event_ids.                *)
SameEventIdsOnSameDay ==
    [][(detection.stage = "ready" /\ detection.output.written
          /\ detection'.output.written
          /\ DateOf(detection'.time) = DateOf(detection.time)
          /\ \A k \in 1..Len(detection.output.events) :
                DateOf(detection.output.events[k].timestamp)
                   = DateOf(detection.time))
         => EventIds(detection'.output.events) = EventIds(detection.output.events)
      ]_vars

(* What C23 says of the status changes of one type, given its snapshots.   *)
TransitionsClassified(ptype) ==
    LET current_df == CurrentOf(ptype)
        previous_df == PreviousOf(ptype)
        r == detect_status_changes(current_df, previous_df, ptype, detection.time)
    IN  /\ ~r.raised
        /\ \A k \in 1..Len(r.events) :
              \/ /\ r.events[k].event_type = "LAPSED"
                 /\ r.events[k].priority = "MEDIUM"
                 /\ r.events[k].marketing_action = "suppress_or_winback"
              \/ /\ r.events[k].event_type = "REINSTATED"
                 /\ r.events[k].priority = "HIGH"
                 /\ r.events[k].marketing_action = "reengagement_sequence"
        /\ \A i \in 1..Len(previous_df.rows), j \in 1..Len(current_df.rows) :
              previous_df.rows[i].LIC_ID = current_df.rows[j].LIC_ID =>
                 LET before == IntOf[previous_df.rows[i].LIC_STA_CDE]
                     after == IntOf[current_df.rows[j].LIC_STA_CDE]
                     number == current_df.rows[j].LIC_NBR
                 IN  /\ CountEvents(r.events, "LAPSED", number)
                           = IF before \in {20, 46, 70} /\ after \in {45, 48, 60}
                             THEN 1 ELSE 0
                     /\ CountEvents(r.events, "REINSTATED", number)
                           = IF before \in {45, 48, 60} /\ after \in {20, 46, 70}
                             THEN 1 ELSE 0

(* C23: for every subject in both snapshots a change from an active code   *)
(* (20, 46, 70) to a lapsed code (45, 48, 60) gives exactly one LAPSED      *)
(* event, MEDIUM, suppress_or_winback; a change from a lapsed code to an    *)
(* active code exactly one REINSTATED event, HIGH, reengagement_sequence;   *)
(* an unchanged status or any other change gives no event.                  *)
C23_StatusTransitions ==
    detection.stage = "ready" =>
        \A ptype \in TypeSet :
           (Loaded(ptype) /\ PreviousColumns \subseteq PreviousOf(ptype).columns
                          /\ CurrentColumns \subseteq CurrentOf(ptype).columns)
              => TransitionsClassified(ptype)

(* The same for snapshots in which every license number occurs once.       *)
StatusTransitionsOfCleanSnapshots ==
    detection.stage = "ready" =>
        \A ptype \in TypeSet : Clean(ptype) => TransitionsClassified(ptype)

(* What C24 says of the new licenses of one type, given its snapshots.     *)
NewLicensesExact(ptype) ==
    LET current_df == CurrentOf(ptype)
        previous_df == PreviousOf(ptype)
        r == detect_new_licenses(current_df, previous_df, ptype, detection.time)
        numbers(df) == {df.rows[i].LIC_NBR : i \in 1..Len(df.rows)}
    IN  /\ ~r.raised
        /\ \A k \in 1..Len(r.events) :
              /\ r.events[k].event_type = "NEW_LICENSE"
              /\ r.events[k].license_number \in numbers(current_df)
        /\ \A number \in numbers(current_df) :
              CountEvents(r.events, "NEW_LICENSE", number)
                 = IF /\ number \notin numbers(previous_df)
                      /\ \E i \in 1..Len(current_df.rows) :
                            /\ current_df.rows[i].LIC_NBR = number
                            /\ current_df.rows[i].LIC_STA_CDE \in {"20", "46", "70"}
                   THEN 1 ELSE 0

(* C24: the NEW_LICENSE events of a run are exactly one event per          *)
(* identifier that is in the current snapshot, not in the previous one,    *)
(* and whose current status code is active; an identifier of the previous  *)
(* snapshot, or one that appears with a status that is not active, gives   *)
(* no NEW_LICENSE event.                                                   *)
C24_NewLicenseEvents ==
    detection.stage = "ready" =>
        \A ptype \in TypeSet :
           (Loaded(ptype) /\ "LIC_NBR" \in PreviousOf(ptype).columns
                          /\ "LIC_NBR" \in CurrentOf(ptype).columns)
              => NewLicensesExact(ptype)

(* The same for snapshots with a number in every status cell.              *)
NewLicenseEventsOfCleanSnapshots ==
    detection.stage = "ready" =>
        \A ptype \in TypeSet : Clean(ptype) => NewLicensesExact(ptype)

(* The same with the stable identifier LIC_ID for the identifier: every    *)
(* holder who is new and active has a NEW_LICENSE event for the number.    *)
NewLicenseEventsPerHolder ==
    detection.stage = "ready" =>
        \A ptype \in TypeSet :
           (Loaded(ptype) /\ AllColumns \subseteq PreviousOf(ptype).columns
              /\ AllColumns \subseteq CurrentOf(ptype).columns
              /\ \A i \in 1..Len(CurrentOf(ptype).rows) :
                    CurrentOf(ptype).rows[i].LIC_STA_CDE \in DOMAIN IntOf) =>
              LET current_df == CurrentOf(ptype)
                  previous_df == PreviousOf(ptype)
                  r == detect_new_licenses(current_df, previous_df, ptype,
                                           detection.time)
              IN  \A i \in 1..Len(current_df.rows) :
                     (/\ \A j \in 1..Len(previous_df.rows) :
                            previous_df.rows[j].LIC_ID # current_df.rows[i].LIC_ID
                      /\ current_df.rows[i].LIC_STA_CDE \in {"20", "46", "70"})
                        => CountEvents(r.events, "NEW_LICENSE",
                                       current_df.rows[i].LIC_NBR) = 1

(* The type cannot be processed: a snapshot is missing, or one lacks a     *)
(* column the detection needs, the renamed column counting as present.     *)
Unprocessable(ptype) ==
    \/ ~Loaded(ptype)
    \/ ~(PreviousColumns \subseteq Unaliased(PreviousOf(ptype)).columns)
    \/ ~(CurrentColumns \subseteq Unaliased(CurrentOf(ptype)).columns)

EventsOfType(events, ptype) ==
    LET of_type(e) == e.professional_type = ptype IN SelectSeq(events, of_type)

(* C25: in a run over several professional types, a type whose snapshot is *)
(* missing or lacks a required column on either side is skipped with a     *)
(* warning, and the events of the other types are produced all the same; a *)
(* snapshot with the renamed column LAST_MNE is processed through the      *)
(* alias and does not fail the run.                                        *)
C25_SchemaDriftTolerated ==
    detection.stage = "ready" =>
        LET r == detect_all_events(detection.store, CurrentDate, PreviousDate,
                                   ProfessionalTypes, detection.time)
        IN  (\A ptype \in TypeSet :
                CurrentOf(ptype) # NoSnapshot =>
                   \A i \in 1..Len(CurrentOf(ptype).rows) :
                      ~StatusRaises(CurrentOf(ptype).rows[i], "LIC_STA_CDE"))
            => /\ ~r.raised
               /\ \A ptype \in TypeSet :
                     IF Unprocessable(ptype)
                     THEN /\ EventsOfType(r.events, ptype) = << >>
                          /\ \E k \in 1..Len(r.warnings) : r.warnings[k][2] = ptype
                     ELSE EventsOfType(r.events, ptype)
                             = detect_new_licenses(Unaliased(CurrentOf(ptype)),
                                  Unaliased(PreviousOf(ptype)), ptype,
                                  detection.time).events
                               \o detect_status_changes(
                                  Unaliased(CurrentOf(ptype)),
                                  Unaliased(PreviousOf(ptype)), ptype,
                                  detection.time).events

(* The same for stores in which every snapshot that is there has every     *)
(* column under its proper name: only missing snapshots.                   *)
MissingSnapshotsSkipped ==
    detection.stage = "ready" =>
        LET r == detect_all_events(detection.store, CurrentDate, PreviousDate,
                                   ProfessionalTypes, detection.time)
        IN  (\A ptype \in TypeSet : Loaded(ptype) => Clean(ptype))
            => /\ ~r.raised
               /\ \A ptype \in TypeSet :
                     IF ~Loaded(ptype)
                     THEN /\ EventsOfType(r.events, ptype) = << >>
                          /\ \E k \in 1..Len(r.warnings) : r.warnings[k][2] = ptype
                     ELSE EventsOfType(r.events, ptype)
                             = detect_new_licenses(CurrentOf(ptype),
                                  PreviousOf(ptype), ptype, detection.time).events
                               \o detect_status_changes(CurrentOf(ptype),
                                  PreviousOf(ptype), ptype, detection.time).events

====
